---- MODULE Spec2Model ----
(***************************************************************************)
(* State-machine model of the mujoco-react step scheduler: the provider's  *)
(* per-frame physics tick (MujocoSimProvider useFrame), the before/after   *)
(* step callback registries, reset(), the provider's built-in IK session   *)
(* and the useIkController hook session.                                   *)
(*                                                                         *)
(* Arrays are 0-based functions, as in the source.  Floating point values  *)
(* are abstracted to small integers; the physics engine (mujoco-js, an     *)
(* external WASM module) is abstracted to a deterministic integrator that  *)
(* keeps what the scheduler relies on: mj_step advances data.time by the   *)
(* timestep, reads ctrl and qfrc_applied without writing them, and         *)
(* recomputes the derived arrays; mj_forward recomputes the derived arrays *)
(* only; mj_resetData clears the data buffer and loads qpos0.              *)
(***************************************************************************)
EXTENDS Integers, Sequences, FiniteSets, TLC

\* ------------------------------------------------------------------------
\* Bounds of the model
\* ------------------------------------------------------------------------
MaxTime == 3
MaxStepReq == 3
MaxBefore == 2
MaxAfter == 1
MaxVal == 1
MaxIter == 3

\* ------------------------------------------------------------------------
\* The loaded scene (model dimensions and configuration)
\* ------------------------------------------------------------------------
NV == 2
NA == 1
NGeom == 3
TrackedBody == 1
MaxContacts == 2
MantissaBits == 3
MaxClock == 10
MaxForce == 2
NumArmJoints == 1
AnimDuration == 2
FrameTime60 == 2

NULL == [null |-> TRUE]
DOFs == 0 .. (NV - 1)
Zeros == [i \in DOFs |-> 0]
ActZeros == [i \in 0 .. (NA - 1) |-> 0]
Gravity == [i \in DOFs |-> IF i = 0 THEN 1 ELSE 0]
HomeJoints == [i \in DOFs |-> 1]
ActuatorTrnid == [k \in 0 .. (2 * NV - 1) |-> <<0, 1, 1, -1>>[k + 1]]
JntQposAdr == [j \in DOFs |-> j]
\* Every actuator drives a joint (mjTRN_JOINT = 0); both joints are slides (mjJNT_SLIDE = 2)
ActuatorTrntype == [i \in DOFs |-> 0]
JntType == [j \in DOFs |-> 2]
DragJac == [i \in DOFs |-> 1]

\* Float64 values: integers, with two values outside the integers in use
Infinity == 2000000000
NaN == 2000000001
Add(a, b) == IF a = NaN \/ b = NaN THEN NaN ELSE a + b
Sub(a, b) == IF a = NaN \/ b = NaN THEN NaN ELSE a - b
Mul(a, b) == IF a = NaN \/ b = NaN THEN NaN ELSE a * b
Abs(a) == IF a = NaN THEN NaN ELSE IF a < 0 THEN -a ELSE a
\* a / b, rounded towards zero; 0 / 0 and x / 0 are not numbers the solver uses
Div(a, b) ==
  IF a = NaN \/ b = NaN \/ b = 0 THEN NaN
  ELSE LET quo == Abs(a) \div Abs(b)
       IN IF (a < 0) = (b < 0) THEN quo ELSE -quo
\* a < b: false as soon as one side is NaN
Lt(a, b) == a # NaN /\ b # NaN /\ a < b

Clamp(x) == IF x < -MaxVal THEN -MaxVal ELSE IF x > MaxVal THEN MaxVal ELSE x
Min(a, b) == IF a < b THEN a ELSE b

\* The sequence without its k-th element
Remove(seq, k) == [j \in 1 .. (Len(seq) - 1) |-> IF j < k THEN seq[j] ELSE seq[j + 1]]

\* The one element of a singleton set
Only(S) == CHOOSE x \in S : TRUE

\* Float64Array element write: an index outside the array is ignored.
SetAt(arr, i, v) == IF i \in DOMAIN arr THEN [arr EXCEPT ![i] = v] ELSE arr

\* ------------------------------------------------------------------------
\* Physics engine adapter
\* ------------------------------------------------------------------------
FK(qpos) == Add(qpos[0], qpos[1])

\* The site position of the loaded scene: the default scene has two slide
\* joints; in the "arm" scene the first joint moves the site on a curve.
SitePos(m, qpos) ==
  IF "kin" \in DOMAIN m /\ m.kin = "arm"
  THEN Add(Mul(qpos[0], qpos[0]), qpos[1])
  ELSE FK(qpos)

\* The site orientation (site_xmat): constant, no joint rotates the site.
SiteMat(m, qpos) == 0

\* The spacing of the floating-point numbers around x
RECURSIVE Quantum(_, _)
Quantum(x, q) == IF x < (2 ^ MantissaBits) * q THEN q ELSE Quantum(x, 2 * q)

\* The floating-point number nearest to x >= 0, ties to the even mantissa
RoundToDouble(x) ==
  IF x < 2 ^ MantissaBits THEN x
  ELSE LET q == Quantum(x, 1)
           lo == (x \div q) * q
           r == x - lo
       IN IF 2 * r < q THEN lo
          ELSE IF 2 * r > q THEN lo + q
          ELSE IF (lo \div q) % 2 = 0 THEN lo ELSE lo + q

mj_forward(m, d) ==
  [d EXCEPT !.qfrc_bias = Gravity, !.site_xpos = SitePos(m, d.qpos)]

mj_step(m, d) ==
  LET vel == [i \in DOFs |->
                Clamp(d.qfrc_applied[i] + (d.ctrl[i] - d.qpos[i]) - Gravity[i])]
      pos == [i \in DOFs |-> Clamp(d.qpos[i] + vel[i])]
  IN [d EXCEPT !.time = RoundToDouble(d.time + m.timestep),
               !.qvel = vel,
               !.qpos = pos,
               !.act = [i \in DOMAIN d.act |-> Clamp(d.ctrl[i])],
               !.qfrc_bias = Gravity,
               !.site_xpos = SitePos(m, pos)]

mj_resetData(m, d) ==
  [time |-> 0, qpos |-> Zeros, qvel |-> Zeros, ctrl |-> Zeros, act |-> ActZeros,
   qfrc_applied |-> Zeros, qfrc_bias |-> Zeros, site_xpos |-> 0]

mj_applyFT(d, f) ==
  [d EXCEPT !.qfrc_applied = [i \in DOFs |-> d.qfrc_applied[i] + DragJac[i] * f]]

\* ------------------------------------------------------------------------
\* State
\* ------------------------------------------------------------------------
VARIABLES
  mjModelRef,           \* NULL or the attached model [timestep]
  mjDataRef,            \* NULL or the attached data arrays
  status,               \* React state: "loading" | "ready" | "error"
  mountLoad,            \* the mount effect's loadScene promise: "pending" | "done"
  apiLoad,              \* a runtime loadScene(newConfig) promise is pending
  disposed,             \* the mount effect's cleanup has run
  siteIdRef,            \* -1 or the id of the tracked site
  pausedRef, speedRef, substepsRef, stepsToRunRef,
  onStepSet,            \* an onStep prop is supplied
  onResetKind,          \* config.onReset: "none" or a hook that writes qpos
  ikEnabledRef, ikCalculatingRef, ikTargetRef, gizmoAnimRef,
  dragRef,              \* DragInteraction: 0 = not dragging, else the spring force
  beforeStepCallbacks, afterStepCallbacks,
  mounted,              \* the mounted step hooks of the component tree, per phase
  ikHook,               \* NULL or the refs of a mounted useIkController
  op,                   \* last operation: "tick" | "reset" | "solve" | "restore" | "other"
  trace,                \* engine calls and callbacks made by the last tick / reset
  mon,                  \* observer of the step(n)-then-ticks scenario
  snapshot,             \* NULL or the StateSnapshot the host took with saveState
  captured,             \* NULL or the live time and arrays when it was taken
  mjContact,            \* data.contact[0 .. ncon): the contacts of the last engine step
  contactEvents,        \* NULL or the refs of a mounted useContactEvents
  stepLoop,             \* NULL or the locals of the tick's stepping loop while it runs
  pairs,                \* the model/data pairs in the WASM heap, and the loads in flight
  player,               \* NULL or the refs of a mounted useTrajectoryPlayer
  policy                \* NULL or the refs of a mounted usePolicy

vars == <<mjModelRef, mjDataRef, status, mountLoad, apiLoad, disposed, siteIdRef,
          pausedRef, speedRef, substepsRef, stepsToRunRef, onStepSet, onResetKind,
          ikEnabledRef, ikCalculatingRef, ikTargetRef, gizmoAnimRef, dragRef,
          beforeStepCallbacks, afterStepCallbacks, mounted, ikHook, op, trace, mon,
          snapshot, captured, mjContact, contactEvents, stepLoop,
                 pairs, player, policy>>

Timesteps == {1, 2}
SiteIds == {-1, 0}
Speeds == {1, 2}
Substeps == {1, 2}
Poses == {0, 1}
BeforeFns == {"gravcomp", "drag"}
AfterFns == {"observer"}

IdleAnim == [active |-> FALSE, startPos |-> 0, endPos |-> 0, elapsed |-> 0]
MonIdle == [n |-> 0, ticks |-> 0, first |-> 0, total |-> 0, cbs |-> 0]

\* An entry of the trace: what was called, and the data it was called on.
Ev(kind, who, d) ==
  [kind |-> kind, who |-> who, time |-> d.time, qfrc |-> d.qfrc_applied,
   ctrl |-> d.ctrl, site |-> d.site_xpos, qpos |-> d.qpos]

\* ------------------------------------------------------------------------
\* Helpers shared by the provider and the hook
\* ------------------------------------------------------------------------
syncGizmoToSite(d, siteId, target) ==
  IF siteId = -1 THEN target ELSE d.site_xpos

\* t = min(elapsed / duration, 1); ease = 1 - (1 - t)^3; lerp(start, end, ease)
EaseNum(el) ==
  LET e == Min(el, AnimDuration)
  IN AnimDuration * AnimDuration * AnimDuration
       - (AnimDuration - e) * (AnimDuration - e) * (AnimDuration - e)
EaseDen == AnimDuration * AnimDuration * AnimDuration
Lerp(a, b, el) == a + ((b - a) * EaseNum(el)) \div EaseDen

\* ga.active = false (elapsed is the model's reading of performance.now() -
\* ga.startTime, which nothing reads once the animation is inactive)
StopAnim(ga) == [ga EXCEPT !.active = FALSE, !.elapsed = 0]

\* The animation block of a frame callback: returns the new target and anim.
AdvanceAnim(ga, target, el) ==
  IF ga.active
  THEN [target |-> Lerp(ga.startPos, ga.endPos, el),
        anim |-> IF el >= AnimDuration THEN StopAnim(ga)
                 ELSE [ga EXCEPT !.elapsed = el]]
  ELSE [target |-> target, anim |-> ga]

\* ------------------------------------------------------------------------
\* GenericIK: damped least squares on a finite-difference Jacobian.  The six
\* task rows are reduced to two: row 0 a position, row 1 an orientation.
\* ------------------------------------------------------------------------
PivotEps == 1
DEFAULTS ==
  [maxIterations |-> MaxIter, damping |-> 1, tolerance |-> 1, epsilon |-> 1,
   posWeight |-> 1, rotWeight |-> 1]

\* { ...DEFAULTS, ...opts }
MergeOpts(opts) ==
  [k \in DOMAIN DEFAULTS |-> IF k \in DOMAIN opts THEN opts[k] ELSE DEFAULTS[k]]

\* sp[off3 + i], sm[off9 + i]: a read outside the array gives NaN
ReadSitePos(d, siteId) == IF siteId = 0 THEN d.site_xpos ELSE NaN
ReadSiteMat(m, d, siteId) == IF siteId = 0 THEN SiteMat(m, d.qpos) ELSE NaN

\* Rotation from the current to the target orientation about the one axis
orientationError(R_cur, R_tgt) == Sub(R_tgt, R_cur)
angularDelta(R_base, R_pert) == Sub(R_pert, R_base)

\* for (i < n) data.qpos[i] = q[i]
WriteJoints(qpos, q, n) ==
  [i \in DOMAIN qpos |-> IF i < n THEN q[i] ELSE qpos[i]]

\* Variant: a pivot below the threshold is divided by all the same
solve6x6Propagate(A, b) ==
  LET factor == Div(A[2][1], A[1][1])
      e11 == Sub(A[2][2], Mul(factor, A[1][2]))
      x1 == Div(Sub(b[2], Mul(factor, b[1])), e11)
  IN [x |-> <<Div(Sub(b[1], Mul(A[1][2], x1)), A[1][1]), x1>>,
      singular |-> Lt(Abs(A[1][1]), PivotEps) \/ Lt(Abs(e11), PivotEps)]

\* Gaussian elimination with partial pivoting; x = 0 when a pivot is below
\* the threshold.  A is <<row 0, row 1>>, b the right-hand side.
solve6x6(A, b) ==
  LET swap == Lt(Abs(A[1][1]), Abs(A[2][1]))
      a0 == IF swap THEN A[2] ELSE A[1]
      a1 == IF swap THEN A[1] ELSE A[2]
      r0 == IF swap THEN b[2] ELSE b[1]
      r1 == IF swap THEN b[1] ELSE b[2]
      pivot0 == a0[1]
      factor == Div(a1[1], pivot0)
      e11 == Sub(a1[2], Mul(factor, a0[2]))
      er1 == Sub(r1, Mul(factor, r0))
      x1 == Div(er1, e11)
      x0 == Div(Sub(r0, Mul(a0[2], x1)), a0[1])
  IN IF Lt(Abs(pivot0), PivotEps) \/ Lt(Abs(e11), PivotEps)
     THEN [x |-> <<0, 0>>, singular |-> TRUE]
     ELSE [x |-> <<x0, x1>>, singular |-> FALSE]

\* One column of the Jacobian: perturb joint j, mj_forward, difference
JacColumn(m, d, siteId, q, j, o, basePos, baseMat) ==
  LET dp == mj_forward(m, [d EXCEPT !.qpos = SetAt(d.qpos, j, Add(q[j], o.epsilon))])
  IN [pos |-> Mul(Div(Sub(ReadSitePos(dp, siteId), basePos), o.epsilon), o.posWeight),
      rot |-> Mul(Div(angularDelta(baseMat, ReadSiteMat(m, dp, siteId)), o.epsilon),
                  o.rotWeight),
      d |-> dp]

\* sum over k < n of a[k] * b[k]
RECURSIVE Dot(_, _, _, _)
Dot(a, b, k, n) ==
  IF k >= n THEN 0 ELSE Add(Mul(a[k], b[k]), Dot(a, b, k + 1, n))

\* Variant: an iterate is kept unless the best so far compares smaller
TrackBestNotWorse(best, errNorm, q) ==
  IF Lt(best.err, errNorm) THEN best ELSE [err |-> errNorm, q |-> [q |-> q]]

\* Variant: the best iterate is replaced on every evaluation
TrackBestLast(best, errNorm, q) == [err |-> errNorm, q |-> [q |-> q]]

\* if (errNorm < bestErr) { bestErr = errNorm; bestQ = Array.from(q) }
TrackBest(best, errNorm, q) ==
  IF Lt(errNorm, best.err) THEN [err |-> errNorm, q |-> [q |-> q]] ELSE best

\* dq = J^T x
JointUpdate(J, sol, n) ==
  [j \in 0 .. (n - 1) |-> Add(Mul(J[j].pos, sol.x[1]), Mul(J[j].rot, sol.x[2]))]

\* Variant: the loop goes on after the error is below tolerance
ConvergedNever(errNorm, o) == FALSE

\* if (errNorm < o.tolerance) break; the norm is kept squared
Converged(errNorm, o) == Lt(errNorm, Mul(o.tolerance, o.tolerance))

\* The Jacobian, the damped system and the update of one iteration, from the
\* data d1 after its forward pass: r = [d, dq, singular]
IterUpdate(m, d1, siteId, n, o, q, basePos, baseMat, error) ==
  Only({ LET Jp == [j \in 0 .. (n - 1) |-> J[j].pos]
             Jr == [j \in 0 .. (n - 1) |-> J[j].rot]
             JJt == <<<<Add(Dot(Jp, Jp, 0, n), o.damping), Dot(Jp, Jr, 0, n)>>,
                      <<Dot(Jr, Jp, 0, n), Add(Dot(Jr, Jr, 0, n), o.damping)>>>>
         IN Only({ [d |-> IF n = 0 THEN d1 ELSE [J[n - 1].d EXCEPT !.qpos = d1.qpos],
                    dq |-> JointUpdate(J, sol, n),
                    singular |-> sol.singular] : sol \in {solve6x6(JJt, error)} })
         : J \in {[j \in 0 .. (n - 1) |->
                     JacColumn(m, d1, siteId, q, j, o, basePos, baseMat)]} })

\* One iteration on st = [d, q, best, its, done]
IterStep(m, siteId, n, targetPos, targetRot, o, st) ==
  Only({ LET basePos == ReadSitePos(d1, siteId)
             baseMat == ReadSiteMat(m, d1, siteId)
             error == <<Mul(Sub(targetPos, basePos), o.posWeight),
                        Mul(orientationError(baseMat, targetRot), o.rotWeight)>>
             errNorm == Add(Mul(error[1], error[1]), Mul(error[2], error[2]))
             best1 == TrackBest(st.best, errNorm, st.q)
         IN IF Converged(errNorm, o)
            THEN [d |-> d1, q |-> st.q, best |-> best1, done |-> TRUE,
                  its |-> Append(st.its,
                            [q |-> st.q, err |-> errNorm, fks |-> 1, jac |-> FALSE,
                             singular |-> FALSE, dq |-> [j \in 0 .. (n - 1) |-> 0]])]
            ELSE Only({ [d |-> u.d, best |-> best1, done |-> FALSE,
                         q |-> [j \in 0 .. (n - 1) |-> Add(st.q[j], u.dq[j])],
                         its |-> Append(st.its,
                                   [q |-> st.q, err |-> errNorm, fks |-> 1 + n,
                                    jac |-> TRUE, singular |-> u.singular, dq |-> u.dq])]
                        : u \in {IterUpdate(m, d1, siteId, n, o, st.q, basePos, baseMat,
                                            error)} })
         : d1 \in {mj_forward(m, [st.d EXCEPT !.qpos = WriteJoints(st.d.qpos, st.q, n)])} })

\* for (iter < o.maxIterations) { ... if (errNorm < o.tolerance) break; ... }
RECURSIVE SolveLoop(_, _, _, _, _, _, _, _)
SolveLoop(m, siteId, n, targetPos, targetRot, o, st, iter) ==
  IF iter >= o.maxIterations \/ st.done THEN st
  ELSE Only({ SolveLoop(m, siteId, n, targetPos, targetRot, o, s, iter + 1)
              : s \in {IterStep(m, siteId, n, targetPos, targetRot, o, st)} })

\* Variant: the data is returned as the last iteration left it
SolveRestoreNone(m, d, savedQpos) == d

\* data.qpos.set(savedQpos); mj_forward(model, data)
SolveRestore(m, d, savedQpos) == mj_forward(m, [d EXCEPT !.qpos = savedQpos])

\* GenericIK.solve: r = [result, d, its, left]; result is NULL or [q |-> vector],
\* left is the data as the loop left it, before the restore
GenericIK_solve(m, d, siteId, n, targetPos, targetRot, currentQ, opts) ==
  LET q0 == [i \in 0 .. (n - 1) |-> IF i \in DOMAIN currentQ THEN currentQ[i] ELSE NaN]
  IN Only({ [result |-> r.best.q, d |-> SolveRestore(m, r.d, d.qpos), its |-> r.its,
             left |-> r.d]
            : r \in {SolveLoop(m, siteId, n, targetPos, targetRot, MergeOpts(opts),
                               [d |-> d, q |-> q0, best |-> [err |-> Infinity, q |-> NULL],
                                its |-> <<>>, done |-> FALSE], 0)} })

\* Variant: without a model the seed is handed back as the solution
ikSolveFnEcho(m, d, siteId, pos, currentQ) ==
  IF m = NULL \/ d = NULL \/ siteId = -1 THEN [result |-> [q |-> currentQ], d |-> d]
  ELSE LET r == GenericIK_solve(m, d, siteId, NumArmJoints, pos, SiteMat(m, d.qpos),
                                currentQ, <<>>)
       IN [result |-> r.result, d |-> r.d]

\* ikSolveFn: null without a model, data or site; r = [result, d]
ikSolveFn(m, d, siteId, pos, currentQ) ==
  IF m = NULL \/ d = NULL \/ siteId = -1 THEN [result |-> NULL, d |-> d]
  ELSE LET r == GenericIK_solve(m, d, siteId, NumArmJoints, pos, SiteMat(m, d.qpos),
                                currentQ, <<>>)
       IN [result |-> r.result, d |-> r.d]

\* for (i < n) data.ctrl[i] = solution[i]
RECURSIVE WriteCtrl(_, _, _, _)
WriteCtrl(ctrl, sol, i, n) ==
  IF i >= n THEN ctrl
  ELSE WriteCtrl(SetAt(ctrl, i, sol[i]), sol, i + 1, n)

\* ------------------------------------------------------------------------
\* Registered step callbacks
\* ------------------------------------------------------------------------
\* Variant: the compensation overwrites the accumulator
GravityCompensationAssign(m, d) ==
  [d EXCEPT !.qfrc_applied = [i \in DOFs |-> d.qfrc_bias[i]]]

\* useGravityCompensation: qfrc_applied[i] += qfrc_bias[i]
GravityCompensation(m, d) ==
  [d EXCEPT !.qfrc_applied = [i \in DOFs |-> d.qfrc_applied[i] + d.qfrc_bias[i]]]

\* DragInteraction: spring force through mj_applyFT while dragging
DragInteraction(m, d) ==
  IF dragRef = 0 THEN d ELSE mj_applyFT(d, dragRef)

\* The IK block shared by the provider's tick and the hook's callback:
\* seed from qpos[0..n), solve, write the solution to ctrl[0..n).
\* Variant: the solution is written to the joints themselves
IkStepTeleport(m, d, siteId, target) ==
  LET currentQ == [i \in 0 .. (NumArmJoints - 1) |->
                     IF i \in DOMAIN d.qpos THEN d.qpos[i] ELSE NaN]
  IN Only({ IF solution.result = NULL THEN solution.d
            ELSE [solution.d EXCEPT
                    !.qpos = WriteCtrl(d.qpos, solution.result.q, 0, NumArmJoints)]
            : solution \in {ikSolveFn(m, d, siteId, target, currentQ)} })

IkStep(m, d, siteId, target) ==
  LET currentQ == [i \in 0 .. (NumArmJoints - 1) |->
                     IF i \in DOMAIN d.qpos THEN d.qpos[i] ELSE NaN]
  IN Only({ IF solution.result = NULL THEN solution.d
            ELSE [solution.d EXCEPT
                    !.ctrl = WriteCtrl(d.ctrl, solution.result.q, 0, NumArmJoints)]
            : solution \in {ikSolveFn(m, d, siteId, target, currentQ)} })

\* useIkController's before-step callback
IkControllerStep(m, c) ==
  IF c.hook = NULL \/ ~c.hook.enabled
  THEN [c EXCEPT !.hook = IF c.hook = NULL THEN NULL
                          ELSE [c.hook EXCEPT !.calculating = FALSE]]
  ELSE [c EXCEPT !.hook = [c.hook EXCEPT !.calculating = TRUE],
                 !.d = IkStep(m, c.d, c.hook.siteId, c.hook.target)]

\* ------------------------------------------------------------------------
\* useTrajectoryPlayer: a trajectory of raw qpos arrays (number[][])
\* ------------------------------------------------------------------------
\* Frames of the trajectory per unit of simulated time (fps * speed)
PlayerFps == 1

\* getQpos(traj, idx): frame idx holds the same number for every joint
getQpos(len, idx) == IF idx \in 0 .. (len - 1) THEN [i \in DOFs |-> idx % 2] ELSE NULL

\* setState('completed') after handing the paused flag back in kinematic mode;
\* r = [player, paused]
complete(r) ==
  [player |-> [r.player EXCEPT !.state = "completed"],
   paused |-> IF r.player.mode = "kinematic" THEN r.player.wasPaused ELSE r.paused]

\* frameRef.current++, then wrap around or complete
AdvanceFrame(pl, paused) ==
  LET next == [pl EXCEPT !.frame = @ + 1]
  IN IF next.frame >= pl.len
     THEN IF pl.loop THEN [player |-> [next EXCEPT !.frame = 0], paused |-> paused]
          ELSE complete([player |-> next, paused |-> paused])
     ELSE [player |-> next, paused |-> paused]

\* The player's before-step callback (physics mode)
PlayerStep(m, c) ==
  IF c.player = NULL \/ c.player.state # "playing" \/ c.player.mode # "physics"
  THEN c
  ELSE LET targetFrame == c.d.time * PlayerFps
           at == [c.player EXCEPT !.frame = Min(targetFrame, c.player.len - 1)]
       IN IF at.frame >= at.len - 1
          THEN IF at.loop
               THEN [c EXCEPT !.d = [c.d EXCEPT !.time = 0],
                              !.player = [at EXCEPT !.frame = 0]]
               ELSE [c EXCEPT !.player = complete([player |-> at, paused |-> FALSE]).player]
          ELSE [c EXCEPT !.player = at]

\* ------------------------------------------------------------------------
\* usePolicy
\* ------------------------------------------------------------------------
\* 1.0 / cfg.frequency, in units of simulated time
PolicyInterval == 2

\* usePolicy's before-step callback: onObservation, then onAction, when the
\* interval has passed since the last action. The consumer's onAction is one
\* that leaves the data alone.
PolicyStep(m, c) ==
  IF c.policy = NULL \/ ~c.policy.isRunning THEN c
  ELSE IF c.d.time - c.policy.lastActionTime >= PolicyInterval
       THEN [c EXCEPT !.tr = c.tr \o <<Ev("onObservation", "policy", c.d),
                                       Ev("onAction", "policy", c.d)>>,
                      !.policy = [c.policy EXCEPT !.lastActionTime = c.d.time]]
       ELSE c

\* One before-step callback: c = [d, hook, player, policy, tr]
BeforeCallback(fn, m, c) ==
  LET logged == [c EXCEPT !.tr = Append(c.tr, Ev("before", fn, c.d))]
  IN CASE fn = "gravcomp" -> [logged EXCEPT !.d = GravityCompensation(m, c.d)]
       [] fn = "drag"     -> [logged EXCEPT !.d = DragInteraction(m, c.d)]
       [] fn = "ik"       -> IkControllerStep(m, logged)
       [] fn = "player"   -> PlayerStep(m, logged)
       [] fn = "policy"   -> PolicyStep(m, logged)
       [] OTHER           -> logged

\* One after-step callback: the observers read the data.
AfterCallback(fn, m, c) ==
  [c EXCEPT !.tr = Append(c.tr, Ev("after", fn, c.d))]

\* for (const cb of beforeStepCallbacks.current) cb(model, data)
RECURSIVE RunBefore(_, _, _, _)
RunBefore(reg, i, m, c) ==
  IF i > Len(reg) THEN c
  ELSE RunBefore(reg, i + 1, m, BeforeCallback(reg[i], m, c))

RECURSIVE RunAfter(_, _, _, _)
RunAfter(reg, i, m, c) ==
  IF i > Len(reg) THEN c
  ELSE RunAfter(reg, i + 1, m, AfterCallback(reg[i], m, c))

\* ------------------------------------------------------------------------
\* The physics tick (MujocoSimProvider useFrame, priority -1)
\* ------------------------------------------------------------------------
\* Variant: the loop stops one entry short of nv
ZeroForcesShort(m, d) ==
  [d EXCEPT !.qfrc_applied = [i \in DOFs |-> IF i < NV - 1 THEN 0 ELSE d.qfrc_applied[i]]]

\* Zero generalized applied forces
ZeroForces(m, d) ==
  [d EXCEPT !.qfrc_applied = [i \in DOFs |-> 0]]

\* for (s < n) mj_step(model, data)
RECURSIVE StepTimes(_, _, _)
StepTimes(n, m, c) ==
  IF n <= 0 THEN c
  ELSE StepTimes(n - 1, m,
         [c EXCEPT !.tr = Append(c.tr, Ev("mj_step", "", c.d)),
                   !.d = mj_step(m, c.d)])

\* Variant: one batch of substeps per frame, whatever the time budget
NormalSteppingOnce(startSimTime, frameTime, numSubsteps, m, c) ==
  StepTimes(numSubsteps, m, c)

\* while (data.time - startSimTime < frameTime) { numSubsteps x mj_step }
RECURSIVE NormalStepping(_, _, _, _, _)
NormalStepping(startSimTime, frameTime, numSubsteps, m, c) ==
  IF c.d.time - startSimTime < frameTime
  THEN NormalStepping(startSimTime, frameTime, numSubsteps, m,
                      StepTimes(numSubsteps, m, c))
  ELSE c

\* Variant: single steps are multiplied by the substep count
StepPhysicsSubsteps(m, c) ==
  IF stepsToRunRef > 0
  THEN StepTimes(stepsToRunRef * substepsRef, m, c)
  ELSE NormalStepping(c.d.time, FrameTime60 * speedRef, substepsRef, m, c)

\* Step physics: single-step mode or substeps up to the frame's time budget
StepPhysics(m, c) ==
  IF stepsToRunRef > 0
  THEN StepTimes(stepsToRunRef, m, c)
  ELSE NormalStepping(c.d.time, FrameTime60 * speedRef, substepsRef, m, c)

\* The provider's built-in IK block
ProviderIk(m, c, target) ==
  IF ikEnabledRef
  THEN [c EXCEPT !.tr = Append(c.tr, Ev("ik", "provider", c.d)),
                 !.d = IkStep(m, c.d, siteIdRef, target)]
  ELSE c

\* onStepRef.current?.(data.time)
StepObserver(c) ==
  IF onStepSet THEN [c EXCEPT !.tr = Append(c.tr, Ev("onStep", "", c.d))] ELSE c

\* Variant: the pause flag is never consulted
ShouldStepAlways(paused, stepsToRun) == TRUE

\* Check single-step mode: shouldStep
ShouldStep(paused, stepsToRun) == ~paused \/ stepsToRun > 0

\* Variant: a pending request is worked off one tick at a time
ConsumeStepsOne(stepsToRun) == IF stepsToRun > 0 THEN stepsToRun - 1 ELSE stepsToRun

\* stepsToRunRef after the stepping block: a pending request is cleared
ConsumeSteps(stepsToRun) == IF stepsToRun > 0 THEN 0 ELSE stepsToRun

\* Variant: the animation block runs ahead of the attach guard
FrameAnimUnguarded(m, d, ga, target, el) == AdvanceAnim(ga, target, el)

\* The attach guard and the gizmo animation block that follows it
FrameAnim(m, d, ga, target, el) ==
  IF m = NULL \/ d = NULL THEN [target |-> target, anim |-> ga]
  ELSE AdvanceAnim(ga, target, el)

\* The branch the stepping block takes in this tick
StepMode == IF stepsToRunRef > 0 THEN "single" ELSE "normal"

\* Variant: the after-step callbacks run ahead of the physics step
SteppingPhasesAfterFirst(m, d, target) ==
  LET c0 == [d |-> ZeroForces(m, d), hook |-> ikHook, player |-> player,
             policy |-> policy,
             tr |-> <<Ev("begin", StepMode, d), Ev("zero", "", ZeroForces(m, d))>>]
      c1 == RunBefore(beforeStepCallbacks, 1, m, c0)
      c2 == ProviderIk(m, c1, target)
      c3 == RunAfter(afterStepCallbacks, 1, m, c2)
      c4 == StepPhysics(m, c3)
  IN StepObserver(c4)

\* Variant: the built-in IK block runs ahead of the before-step callbacks
SteppingPhasesIkFirst(m, d, target) ==
  LET c0 == [d |-> ZeroForces(m, d), hook |-> ikHook, player |-> player,
             policy |-> policy,
             tr |-> <<Ev("begin", StepMode, d), Ev("zero", "", ZeroForces(m, d))>>]
  IN Only({ LET c2 == RunBefore(beforeStepCallbacks, 1, m, c1)
                c3 == StepPhysics(m, c2)
                c4 == RunAfter(afterStepCallbacks, 1, m, c3)
            IN StepObserver(c4)
            : c1 \in {ProviderIk(m, c0, target)} })

\* Everything after the shouldStep check
SteppingPhases(m, d, target) ==
  LET c0 == [d |-> ZeroForces(m, d), hook |-> ikHook, player |-> player,
             policy |-> policy,
             tr |-> <<Ev("begin", StepMode, d), Ev("zero", "", ZeroForces(m, d))>>]
      c1 == RunBefore(beforeStepCallbacks, 1, m, c0)
  IN Only({ LET c3 == StepPhysics(m, c2)
                c4 == RunAfter(afterStepCallbacks, 1, m, c3)
            IN StepObserver(c4)
            : c2 \in {ProviderIk(m, c1, target)} })

EngineSteps(tr) == Cardinality({k \in DOMAIN tr : tr[k].kind = "mj_step"})
Callbacks(tr) == Cardinality({k \in DOMAIN tr : tr[k].kind \in {"before", "after"}})

\* The scenario observer follows the ticks after a step(n) request
MonTick(tr) ==
  IF mon.n = 0 \/ mon.ticks >= (IF pausedRef THEN 3 ELSE 1) THEN mon
  ELSE [mon EXCEPT !.ticks = mon.ticks + 1,
                   !.first = IF mon.ticks = 0 THEN EngineSteps(tr) ELSE mon.first,
                   !.total = mon.total + EngineSteps(tr),
                   !.cbs = IF mon.ticks = 0 THEN 0 ELSE mon.cbs + Callbacks(tr)]

\* The provider's frame callback (priority -1), followed in the same render
\* frame by HookFrame, the callbacks of priority 0 that touch the hook's refs
ProviderFrame(HookFrame(_, _)) ==
  /\ IF mjDataRef = NULL \/ ~ShouldStep(pausedRef, stepsToRunRef) THEN TRUE
     ELSE mjDataRef.time < MaxTime
  /\ \E el \in 0 .. AnimDuration :
       /\ IF gizmoAnimRef.active THEN el >= gizmoAnimRef.elapsed ELSE el = 0
       /\ LET anim == FrameAnim(mjModelRef, mjDataRef, gizmoAnimRef, ikTargetRef, el)
          IN /\ ikTargetRef' = anim.target
             /\ gizmoAnimRef' = anim.anim
             /\ IF mjModelRef = NULL \/ mjDataRef = NULL
                   \/ ~ShouldStep(pausedRef, stepsToRunRef)
                THEN /\ trace' = <<>>
                     /\ ikHook' = HookFrame(ikHook, mjDataRef)
                     /\ UNCHANGED <<mjDataRef, ikCalculatingRef, stepsToRunRef>>
                ELSE \E c \in {SteppingPhases(mjModelRef, mjDataRef, anim.target)} :
                        /\ mjDataRef' = c.d
                        /\ ikHook' = HookFrame(c.hook, c.d)
                        /\ ikCalculatingRef' = ikEnabledRef
                        /\ stepsToRunRef' = ConsumeSteps(stepsToRunRef)
                        /\ trace' = c.tr
  /\ op' = "tick"
  /\ mon' = MonTick(trace')
  /\ UNCHANGED <<mjModelRef, status, mountLoad, apiLoad, disposed, siteIdRef,
                 pausedRef, speedRef, substepsRef, onStepSet, onResetKind,
                 ikEnabledRef, dragRef, beforeStepCallbacks, afterStepCallbacks,
                 mounted>>
  /\ UNCHANGED <<snapshot, captured>>

\* A frame in which no other frame callback touches the hook's refs
Tick ==
  /\ ProviderFrame(LAMBDA h, d : h)
  /\ UNCHANGED <<mjContact, contactEvents, stepLoop,
                 pairs, player, policy>>

\* ------------------------------------------------------------------------
\* Scene load, disposal
\* ------------------------------------------------------------------------
\* Set initial pose / re-apply home pose (the same loop in loadScene and reset)
\* config.homeJoints of the scene
HomeJointsOf(m) == IF "home" \in DOMAIN m THEN m.home ELSE HomeJoints

\* An Int32Array read: undefined (no number) outside the array
TrnidIs(k, v) == k \in DOMAIN ActuatorTrnid /\ ActuatorTrnid[k] = v

RECURSIVE ApplyHomeJoints(_, _, _)
ApplyHomeJoints(m, d, i) ==
  IF i >= Cardinality(DOMAIN HomeJointsOf(m)) THEN d
  ELSE LET d1 == [d EXCEPT !.ctrl = SetAt(d.ctrl, i, HomeJointsOf(m)[i])]
           d2 == IF TrnidIs(2 * i + 1, 1) /\ ActuatorTrnid[2 * i] >= 0
                    /\ ActuatorTrnid[2 * i] < NV
                 THEN [d1 EXCEPT !.qpos = SetAt(d1.qpos, JntQposAdr[ActuatorTrnid[2 * i]],
                                                HomeJointsOf(m)[i])]
                 ELSE d1
       IN ApplyHomeJoints(m, d2, i + 1)

\* loadScene: new MjData, initial pose, mj_forward
loadSceneOf(m) == mj_forward(m, ApplyHomeJoints(m, mj_resetData(m, NULL), 0))

loadScene(ts) == loadSceneOf([timestep |-> ts])

\* The model of the scene whose site moves on a curve
ArmModel == [timestep |-> 1, kin |-> "arm"]

\* loadScene returns a new MjModel and a new MjData: one more pair in the heap
Created(p) == [p EXCEPT !.live = @ + 1]

\* model.delete() and data.delete() on n pairs
Deleted(p, n) == [p EXCEPT !.live = @ - n]

\* The mount effect's loadScene promise resolves
MountLoadResolve(ts, sid) ==
  /\ mountLoad = "pending"
  /\ mountLoad' = "done"
  /\ IF disposed
     THEN UNCHANGED <<mjModelRef, mjDataRef, siteIdRef, ikTargetRef, status>>
     ELSE   /\ mjModelRef' = [timestep |-> ts]
            /\ mjDataRef' = loadScene(ts)
            /\ siteIdRef' = sid
            /\ ikTargetRef' = syncGizmoToSite(loadScene(ts), sid, ikTargetRef)
            /\ status' = "ready"
  /\ op' = "other" /\ trace' = <<>> /\ mon' = MonIdle
  /\ UNCHANGED <<mounted, apiLoad, disposed, pausedRef, speedRef, substepsRef, stepsToRunRef,
                 onStepSet, onResetKind, ikEnabledRef, ikCalculatingRef, gizmoAnimRef,
                 dragRef, beforeStepCallbacks, afterStepCallbacks, ikHook>>
  /\ pairs' = IF disposed THEN Deleted(Created(pairs), 1) ELSE Created(pairs)
  /\ UNCHANGED <<snapshot, captured, mjContact, contactEvents, stepLoop,
                 player, policy>>

\* The scene whose homeJoints list has one entry more than the model has actuators
LongHomeModel == [timestep |-> 1, home |-> [i \in 0 .. NV |-> 1]]

\* The mount effect's loadScene promise resolves, for the scene of model m
MountLoadOf(m, sid) ==
  /\ mountLoad = "pending" /\ ~disposed
  /\ mountLoad' = "done"
  /\ mjModelRef' = m
  /\ mjDataRef' = loadSceneOf(m)
  /\ siteIdRef' = sid
  /\ ikTargetRef' = syncGizmoToSite(loadSceneOf(m), sid, ikTargetRef)
  /\ status' = "ready"
  /\ op' = "other" /\ trace' = <<>> /\ mon' = MonIdle
  /\ UNCHANGED <<mounted, apiLoad, disposed, pausedRef, speedRef, substepsRef, stepsToRunRef,
                 onStepSet, onResetKind, ikEnabledRef, ikCalculatingRef, gizmoAnimRef,
                 dragRef, beforeStepCallbacks, afterStepCallbacks, ikHook>>
  /\ pairs' = Created(pairs)
  /\ UNCHANGED <<snapshot, captured, mjContact, contactEvents, stepLoop,
                 player, policy>>

\* The mount effect's loadScene promise resolves, for the arm scene
MountLoadArm(sid) == MountLoadOf(ArmModel, sid)

\* The mount effect's cleanup (provider unmounted)
Dispose ==
  /\ ~disposed
  /\ disposed' = TRUE
  /\ mjModelRef' = NULL
  /\ mjDataRef' = NULL
  /\ op' = "other" /\ trace' = <<>> /\ mon' = MonIdle
  /\ UNCHANGED <<mounted, status, mountLoad, apiLoad, siteIdRef, pausedRef, speedRef,
                 substepsRef, stepsToRunRef, onStepSet, onResetKind, ikEnabledRef,
                 ikCalculatingRef, ikTargetRef, gizmoAnimRef, dragRef,
                 beforeStepCallbacks, afterStepCallbacks, ikHook>>
  /\ pairs' = Deleted(pairs, IF mjModelRef = NULL THEN 0 ELSE 1)
  /\ UNCHANGED <<snapshot, captured, mjContact, contactEvents, stepLoop,
                 player, policy>>

\* api.loadScene(newConfig), up to the await
LoadSceneStart ==
  /\ ~disposed /\ ~apiLoad /\ mountLoad = "done"
  /\ mjModelRef' = NULL
  /\ mjDataRef' = NULL
  /\ status' = "loading"
  /\ apiLoad' = TRUE
  /\ op' = "other" /\ trace' = <<>> /\ mon' = MonIdle
  /\ UNCHANGED <<mounted, mountLoad, disposed, siteIdRef, pausedRef, speedRef, substepsRef,
                 stepsToRunRef, onStepSet, onResetKind, ikEnabledRef, ikCalculatingRef,
                 ikTargetRef, gizmoAnimRef, dragRef, beforeStepCallbacks,
                 afterStepCallbacks, ikHook>>
  /\ pairs' = Deleted(pairs, IF mjModelRef = NULL THEN 0 ELSE 1)
  /\ UNCHANGED <<snapshot, captured, mjContact, contactEvents, stepLoop,
                 player, policy>>

\* api.loadScene(newConfig), after the await
LoadSceneResolve(ts, sid) ==
  /\ apiLoad
  /\ apiLoad' = FALSE
  /\   /\ mjModelRef' = [timestep |-> ts]
       /\ mjDataRef' = loadScene(ts)
       /\ siteIdRef' = sid
       /\ ikTargetRef' = syncGizmoToSite(loadScene(ts), sid, ikTargetRef)
  /\ status' = "ready"
  /\ op' = "other" /\ trace' = <<>> /\ mon' = MonIdle
  /\ UNCHANGED <<mounted, mountLoad, disposed, pausedRef, speedRef, substepsRef, stepsToRunRef,
                 onStepSet, onResetKind, ikEnabledRef, ikCalculatingRef, gizmoAnimRef,
                 dragRef, beforeStepCallbacks, afterStepCallbacks, ikHook>>
  /\ pairs' = Created(pairs)
  /\ UNCHANGED <<snapshot, captured, mjContact, contactEvents, stepLoop,
                 player, policy>>

\* ------------------------------------------------------------------------
\* reset()
\* ------------------------------------------------------------------------
\* config.onReset?.(model, data): a host hook that places a free joint
OnResetHook(m, d) ==
  IF onResetKind = "none" THEN d
  ELSE [d EXCEPT !.qpos = SetAt(d.qpos, NV - 1, 1)]

\* useIkController's reset callback
IkResetCallback(h, d) ==
  [h EXCEPT !.target = IF d # NULL THEN syncGizmoToSite(d, h.siteId, h.target)
                       ELSE h.target,
            !.anim = StopAnim(h.anim),
            !.enabled = FALSE,
            !.needsInitialSync = TRUE]

\* The provider notifies every registered reset observer at the end of reset()
NotifyResetObservers(h, d) ==
  IF h = NULL THEN h ELSE IkResetCallback(h, d)

\* Variant: forward kinematics runs ahead of the host hook
ResetPhasesForwardFirst(m, d) ==
  LET d1 == mj_resetData(m, d)
      d2 == ApplyHomeJoints(m, d1, 0)
      d3 == mj_forward(m, d2)
      d4 == OnResetHook(m, d3)
      t0 == <<Ev("mj_resetData", "", d), Ev("home", "", d1)>>
      t1 == Append(t0, Ev("mj_forward", "", d2))
      t2 == IF onResetKind = "none" THEN t1 ELSE Append(t1, Ev("onReset", "", d3))
  IN [d |-> d4, tr |-> Append(t2, Ev("sync", "provider", d4))]

\* The body of reset() on an attached model: r = [d, tr]
ResetPhases(m, d) ==
  LET d1 == mj_resetData(m, d)
      d2 == ApplyHomeJoints(m, d1, 0)
      d3 == OnResetHook(m, d2)
      d4 == mj_forward(m, d3)
      t0 == <<Ev("mj_resetData", "", d), Ev("home", "", d1)>>
      t1 == IF onResetKind = "none" THEN t0 ELSE Append(t0, Ev("onReset", "", d2))
      t2 == Append(t1, Ev("mj_forward", "", d3))
  IN [d |-> d4, tr |-> Append(t2, Ev("sync", "provider", d4))]

\* Variant: the reset leaves the enable flag alone
ResetIkKeepEnabled(enabled, ga, target, d, siteId) ==
  [enabled |-> enabled, anim |-> StopAnim(ga),
   target |-> syncGizmoToSite(d, siteId, target)]

\* What reset() does to the provider's IK refs, d being the data after mj_forward
ResetIk(enabled, ga, target, d, siteId) ==
  [enabled |-> FALSE, anim |-> StopAnim(ga),
   target |-> syncGizmoToSite(d, siteId, target)]

reset ==
  /\ ~disposed
  /\ IF mjModelRef = NULL \/ mjDataRef = NULL
     THEN /\ trace' = <<>>
          /\ UNCHANGED <<mjDataRef, gizmoAnimRef, ikTargetRef, ikEnabledRef, ikHook>>
     ELSE LET r == ResetPhases(mjModelRef, mjDataRef)
              ik == ResetIk(ikEnabledRef, gizmoAnimRef, ikTargetRef, r.d, siteIdRef)
          IN /\ gizmoAnimRef' = ik.anim
             /\ mjDataRef' = r.d
             /\ ikTargetRef' = ik.target
             /\ ikEnabledRef' = ik.enabled
             /\ ikHook' = NotifyResetObservers(ikHook, r.d)
             /\ trace' = r.tr
  /\ op' = "reset"
  /\ UNCHANGED <<mounted, mjModelRef, status, mountLoad, apiLoad, disposed, siteIdRef,
                 pausedRef, speedRef, substepsRef, stepsToRunRef, onStepSet,
                 onResetKind, ikCalculatingRef, dragRef, beforeStepCallbacks,
                 afterStepCallbacks, mon>>
  /\ UNCHANGED <<snapshot, captured, mjContact, contactEvents, stepLoop,
                 pairs, player, policy>>

\* ------------------------------------------------------------------------
\* Simulation control API
\* ------------------------------------------------------------------------
setPaused(p) ==
  /\ ~disposed
  /\ pausedRef' = p
  /\ op' = "other" /\ trace' = <<>> /\ mon' = MonIdle
  /\ UNCHANGED <<mounted, mjModelRef, mjDataRef, status, mountLoad, apiLoad, disposed,
                 siteIdRef, speedRef, substepsRef, stepsToRunRef, onStepSet,
                 onResetKind, ikEnabledRef, ikCalculatingRef, ikTargetRef,
                 gizmoAnimRef, dragRef, beforeStepCallbacks, afterStepCallbacks, ikHook>>
  /\ UNCHANGED <<snapshot, captured, mjContact, contactEvents, stepLoop,
                 pairs, player, policy>>

togglePause ==
  /\ ~disposed
  /\ pausedRef' = ~pausedRef
  /\ op' = "other" /\ trace' = <<>> /\ mon' = MonIdle
  /\ UNCHANGED <<mounted, mjModelRef, mjDataRef, status, mountLoad, apiLoad, disposed,
                 siteIdRef, speedRef, substepsRef, stepsToRunRef, onStepSet,
                 onResetKind, ikEnabledRef, ikCalculatingRef, ikTargetRef,
                 gizmoAnimRef, dragRef, beforeStepCallbacks, afterStepCallbacks, ikHook>>
  /\ UNCHANGED <<snapshot, captured, mjContact, contactEvents, stepLoop,
                 pairs, player, policy>>

setSpeed(multiplier) ==
  /\ ~disposed
  /\ speedRef' = multiplier
  /\ op' = "other" /\ trace' = <<>>
  /\ UNCHANGED <<mounted, mjModelRef, mjDataRef, status, mountLoad, apiLoad, disposed,
                 siteIdRef, pausedRef, substepsRef, stepsToRunRef, onStepSet,
                 onResetKind, ikEnabledRef, ikCalculatingRef, ikTargetRef,
                 gizmoAnimRef, dragRef, beforeStepCallbacks, afterStepCallbacks,
                 ikHook, mon>>
  /\ UNCHANGED <<snapshot, captured, mjContact, contactEvents, stepLoop,
                 pairs, player, policy>>

\* useEffect(() => { substepsRef.current = substeps ?? 1 }, [substeps])
SubstepsProp(n) ==
  /\ ~disposed
  /\ substepsRef' = n
  /\ op' = "other" /\ trace' = <<>>
  /\ UNCHANGED <<mounted, mjModelRef, mjDataRef, status, mountLoad, apiLoad, disposed,
                 siteIdRef, pausedRef, speedRef, stepsToRunRef, onStepSet,
                 onResetKind, ikEnabledRef, ikCalculatingRef, ikTargetRef,
                 gizmoAnimRef, dragRef, beforeStepCallbacks, afterStepCallbacks,
                 ikHook, mon>>
  /\ UNCHANGED <<snapshot, captured, mjContact, contactEvents, stepLoop,
                 pairs, player, policy>>

\* step(n): request n single steps; the scenario observer starts when the
\* request is made on an attached simulation
\* Variant: a request is added to the one that is pending
StepRequestAdd(pending, n) == pending + n

\* stepsToRunRef.current = n
StepRequest(pending, n) == n

step(n) ==
  /\ ~disposed
  /\ stepsToRunRef' = StepRequest(stepsToRunRef, n)
  /\ op' = "other" /\ trace' = <<>>
  /\ mon' = IF n > 0 /\ mjModelRef # NULL /\ mjDataRef # NULL
            THEN [MonIdle EXCEPT !.n = n] ELSE MonIdle
  /\ UNCHANGED <<mounted, mjModelRef, mjDataRef, status, mountLoad, apiLoad, disposed,
                 siteIdRef, pausedRef, speedRef, substepsRef, onStepSet,
                 onResetKind, ikEnabledRef, ikCalculatingRef, ikTargetRef,
                 gizmoAnimRef, dragRef, beforeStepCallbacks, afterStepCallbacks, ikHook>>
  /\ UNCHANGED <<snapshot, captured, mjContact, contactEvents, stepLoop,
                 pairs, player, policy>>

\* ------------------------------------------------------------------------
\* The provider's IK API
\* ------------------------------------------------------------------------
\* What a call of the solver leaves in the trace
SolveEv(who, siteId, n, targetPos, targetRot, currentQ, o, before, r) ==
  [kind |-> "solve", who |-> who, siteId |-> siteId, n |-> n, targetPos |-> targetPos,
   targetRot |-> targetRot, currentQ |-> currentQ, o |-> o, before |-> before,
   result |-> r.result, its |-> r.its, left |-> r.left]

SolverUnchanged ==
  UNCHANGED <<snapshot, captured, mjContact, contactEvents, stepLoop,
              pairs, player, policy,
              mjModelRef, status, mountLoad, apiLoad, disposed, siteIdRef, pausedRef,
              speedRef, substepsRef, stepsToRunRef, onStepSet, onResetKind,
              ikEnabledRef, ikCalculatingRef, ikTargetRef, gizmoAnimRef, dragRef,
              beforeStepCallbacks, afterStepCallbacks, mounted, ikHook, mon>>

\* A direct call of GenericIK.solve on the attached model and data
GenericIkSolve(siteId, n, targetPos, targetRot, currentQ, opts) ==
  /\ ~disposed
  /\ mjModelRef # NULL /\ mjDataRef # NULL
  /\ \E r \in {GenericIK_solve(mjModelRef, mjDataRef, siteId, n, targetPos, targetRot,
                                currentQ, opts)} :
       /\ mjDataRef' = r.d
       /\ trace' = <<SolveEv("GenericIK", siteId, n, targetPos, targetRot, currentQ,
                             MergeOpts(opts), mjDataRef, r)>>
  /\ op' = "solve"
  /\ SolverUnchanged

\* api.solveIK(pos, quat, currentQ)
solveIK(pos, currentQ) ==
  /\ ~disposed
  /\ \E r \in {ikSolveFn(mjModelRef, mjDataRef, siteIdRef, pos, currentQ)} :
       /\ mjDataRef' = r.d
       /\ trace' = <<[kind |-> "solveIK", who |-> "api", result |-> r.result,
                      before |-> mjDataRef]>>
  /\ op' = "solve"
  /\ SolverUnchanged

\* ------------------------------------------------------------------------
\* State snapshots
\* ------------------------------------------------------------------------
Float64Array0 == [i \in 0 .. -1 |-> 0]
SnapshotArrays == {"qpos", "qvel", "ctrl", "act", "qfrc_applied"}

\* Variant: the snapshot holds the live arrays themselves, not copies
saveStateViews(d) ==
  IF d = NULL
  THEN [time |-> 0, qpos |-> Float64Array0, qvel |-> Float64Array0,
        ctrl |-> Float64Array0, act |-> Float64Array0,
        qfrc_applied |-> Float64Array0, views |-> {}]
  ELSE [time |-> d.time, qpos |-> d.qpos, qvel |-> d.qvel, ctrl |-> d.ctrl,
        act |-> d.act, qfrc_applied |-> d.qfrc_applied, views |-> SnapshotArrays]

\* saveState(): copies of the state arrays (new Float64Array(data.qpos)), or
\* an empty snapshot without data.  views: the fields that alias a live array
saveStateOf(d) ==
  IF d = NULL
  THEN [time |-> 0, qpos |-> Float64Array0, qvel |-> Float64Array0,
        ctrl |-> Float64Array0, act |-> Float64Array0,
        qfrc_applied |-> Float64Array0, views |-> {}]
  ELSE [time |-> d.time, qpos |-> d.qpos, qvel |-> d.qvel, ctrl |-> d.ctrl,
        act |-> d.act, qfrc_applied |-> d.qfrc_applied, views |-> {}]

\* What the host reads in field f of a snapshot: the live array through a
\* view, the stored copy otherwise
SnapshotRead(snap, d, f) ==
  IF f \in snap.views /\ d # NULL THEN d[f] ELSE snap[f]

\* The values of the live state at the moment of a capture
CaptureOf(d) ==
  IF d = NULL THEN [f \in SnapshotArrays |-> Float64Array0]
  ELSE [f \in SnapshotArrays |-> d[f]]

\* TypedArray.prototype.set(source): a source longer than the target throws
\* RangeError; a shorter one overwrites a prefix of the target.
Fits(target, source) == Cardinality(DOMAIN source) <= Cardinality(DOMAIN target)
TypedArraySetNone(target, source) == target
TypedArraySet(target, source) ==
  [i \in DOMAIN target |-> IF i \in DOMAIN source THEN source[i] ELSE target[i]]

\* restoreState(snapshot) on attached data: r = [d, error]. The writes are
\* made in order; a throwing set leaves the earlier writes in place.
restoreStateOf(m, d, s) ==
  LET d0 == [d EXCEPT !.time = s.time]
      d1 == [d0 EXCEPT !.qpos = TypedArraySet(@, s.qpos)]
      d2 == [d1 EXCEPT !.qvel = TypedArraySet(@, s.qvel)]
      d3 == [d2 EXCEPT !.ctrl = TypedArraySet(@, s.ctrl)]
      d4 == IF Cardinality(DOMAIN s.act) > 0
            THEN [d3 EXCEPT !.act = TypedArraySet(@, s.act)] ELSE d3
      d5 == [d4 EXCEPT !.qfrc_applied = TypedArraySet(@, s.qfrc_applied)]
  IN IF ~Fits(d.qpos, s.qpos) THEN [d |-> d0, error |-> "RangeError"]
     ELSE IF ~Fits(d.qvel, s.qvel) THEN [d |-> d1, error |-> "RangeError"]
     ELSE IF ~Fits(d.ctrl, s.ctrl) THEN [d |-> d2, error |-> "RangeError"]
     ELSE IF ~Fits(d.act, s.act) THEN [d |-> d3, error |-> "RangeError"]
     ELSE IF ~Fits(d.qfrc_applied, s.qfrc_applied)
          THEN [d |-> d4, error |-> "RangeError"]
     ELSE [d |-> mj_forward(m, d5), error |-> "none"]

SnapshotUnchanged ==
  UNCHANGED <<mounted, mjModelRef, status, mountLoad, apiLoad, disposed,
              siteIdRef, pausedRef, speedRef, substepsRef, stepsToRunRef,
              onStepSet, onResetKind, ikEnabledRef, ikCalculatingRef, ikTargetRef,
              gizmoAnimRef, dragRef, beforeStepCallbacks, afterStepCallbacks,
              ikHook, mon, mjContact, contactEvents, stepLoop,
                 pairs, player, policy>>

\* api.saveState(): the host keeps the snapshot it is handed
saveState ==
  /\ snapshot' = saveStateOf(mjDataRef)
  /\ captured' = [time |-> snapshot'.time, arrays |-> CaptureOf(mjDataRef)]
  /\ op' = "other" /\ trace' = <<>>
  /\ UNCHANGED mjDataRef
  /\ SnapshotUnchanged

\* The array with n elements: cut, or padded with zeros
Resize(arr, n) == [i \in 0 .. (n - 1) |-> IF i \in DOMAIN arr THEN arr[i] ELSE 0]

\* The snapshots a host can hand to restoreState: the one it took, and that
\* one with qpos or qvel of another length (one shorter, one longer)
SnapshotInputs(snap) ==
  {snap} \cup {[snap EXCEPT ![f] = Resize(@, n)] :
                 f \in {"qpos", "qvel"}, n \in {NV - 1, NV + 1}}

\* api.restoreState(s)
restoreState(s) ==
  /\ IF mjModelRef = NULL \/ mjDataRef = NULL
     THEN trace' = <<>> /\ UNCHANGED mjDataRef
     ELSE \E r \in {restoreStateOf(mjModelRef, mjDataRef, s)} :
            /\ mjDataRef' = r.d
            /\ trace' = <<[kind |-> "restoreState", s |-> s, error |-> r.error,
                           before |-> mjDataRef]>>
  /\ op' = "restore"
  /\ UNCHANGED <<snapshot, captured, mjContact, contactEvents, stepLoop,
                 pairs, player, policy>>
  /\ SnapshotUnchanged

\* setIkEnabled as a function of the refs it touches: r = [enabled, target]
SetIkEnabledFn(enabled, d, ga, siteId, target) ==
  [enabled |-> enabled,
   target |-> IF enabled /\ d # NULL /\ ~ga.active
              THEN syncGizmoToSite(d, siteId, target) ELSE target]

\* moveTarget as a function of the refs it touches: r = [enabled, target, anim]
MoveTargetFn(pos, duration, enabled, d, ga, siteId, target) ==
  LET e == IF ~enabled THEN SetIkEnabledFn(TRUE, d, ga, siteId, target)
           ELSE [enabled |-> enabled, target |-> target]
  IN IF duration > 0
     THEN [enabled |-> e.enabled, target |-> e.target,
           anim |-> [active |-> TRUE, startPos |-> e.target, endPos |-> pos,
                     elapsed |-> 0]]
     ELSE [enabled |-> e.enabled, target |-> pos, anim |-> StopAnim(ga)]

setIkEnabled(enabled) ==
  /\ ~disposed
  /\ LET r == SetIkEnabledFn(enabled, mjDataRef, gizmoAnimRef, siteIdRef, ikTargetRef)
     IN /\ ikEnabledRef' = r.enabled
        /\ ikTargetRef' = r.target
  /\ op' = "other" /\ trace' = <<>>
  /\ UNCHANGED <<mounted, mjModelRef, mjDataRef, status, mountLoad, apiLoad, disposed,
                 siteIdRef, pausedRef, speedRef, substepsRef, stepsToRunRef,
                 onStepSet, onResetKind, ikCalculatingRef, gizmoAnimRef, dragRef,
                 beforeStepCallbacks, afterStepCallbacks, ikHook, mon>>
  /\ UNCHANGED <<snapshot, captured, mjContact, contactEvents, stepLoop,
                 pairs, player, policy>>

moveTarget(pos, duration) ==
  /\ ~disposed
  /\ LET r == MoveTargetFn(pos, duration, ikEnabledRef, mjDataRef, gizmoAnimRef,
                           siteIdRef, ikTargetRef)
     IN /\ ikEnabledRef' = r.enabled
        /\ ikTargetRef' = r.target
        /\ gizmoAnimRef' = r.anim
  /\ op' = "other" /\ trace' = <<>>
  /\ UNCHANGED <<mounted, mjModelRef, mjDataRef, status, mountLoad, apiLoad, disposed,
                 siteIdRef, pausedRef, speedRef, substepsRef, stepsToRunRef,
                 onStepSet, onResetKind, ikCalculatingRef, dragRef,
                 beforeStepCallbacks, afterStepCallbacks, ikHook, mon>>
  /\ UNCHANGED <<snapshot, captured, mjContact, contactEvents, stepLoop,
                 pairs, player, policy>>

\* ------------------------------------------------------------------------
\* Callback registry (useBeforePhysicsStep / useAfterPhysicsStep effects)
\* ------------------------------------------------------------------------
\* Variant: the registry is keyed by the callback, not by the wrapper
SetAddByCallback(reg, fn) ==
  IF \E k \in DOMAIN reg : reg[k] = fn THEN reg ELSE Append(reg, fn)

\* Set.add of a freshly created wrapper: a new entry, last in iteration order
SetAdd(reg, fn) == Append(reg, fn)

\* Variant: the cleanup deletes nothing (a wrapper other than the registered one)
SetDeleteNone(reg, k) == reg

\* Set.delete of the wrapper that was registered as entry k
SetDelete(reg, k) == [j \in 1 .. (Len(reg) - 1) |-> IF j < k THEN reg[j] ELSE reg[j + 1]]

Has(reg, fn) == \E k \in DOMAIN reg : reg[k] = fn

RegisterBefore(fn) ==
  /\ ~disposed
  /\ Len(beforeStepCallbacks) < MaxBefore
  /\ beforeStepCallbacks' = SetAdd(beforeStepCallbacks, fn)
  /\ op' = "other" /\ trace' = <<>>
  /\ mounted' = [mounted EXCEPT !.before = Append(@, fn)]
  /\ UNCHANGED <<mjModelRef, mjDataRef, status, mountLoad, apiLoad, disposed,
                 siteIdRef, pausedRef, speedRef, substepsRef, stepsToRunRef,
                 onStepSet, onResetKind, ikEnabledRef, ikCalculatingRef, ikTargetRef,
                 gizmoAnimRef, dragRef, afterStepCallbacks, ikHook, mon>>
  /\ UNCHANGED <<snapshot, captured, mjContact, contactEvents, stepLoop,
                 pairs, player, policy>>

UnregisterBefore(k) ==
  /\ ~disposed
  /\ k \in DOMAIN beforeStepCallbacks
  /\ beforeStepCallbacks[k] # "ik"
  /\ beforeStepCallbacks' = SetDelete(beforeStepCallbacks, k)
  /\ dragRef' = IF Has(beforeStepCallbacks', "drag") THEN dragRef ELSE 0
  /\ op' = "other" /\ trace' = <<>>
  /\ mounted' = [mounted EXCEPT !.before = Remove(@, k)]
  /\ UNCHANGED <<mjModelRef, mjDataRef, status, mountLoad, apiLoad, disposed,
                 siteIdRef, pausedRef, speedRef, substepsRef, stepsToRunRef,
                 onStepSet, onResetKind, ikEnabledRef, ikCalculatingRef, ikTargetRef,
                 gizmoAnimRef, afterStepCallbacks, ikHook, mon>>
  /\ UNCHANGED <<snapshot, captured, mjContact, contactEvents, stepLoop,
                 pairs, player, policy>>

RegisterAfter(fn) ==
  /\ ~disposed
  /\ Len(afterStepCallbacks) < MaxAfter
  /\ afterStepCallbacks' = SetAdd(afterStepCallbacks, fn)
  /\ op' = "other" /\ trace' = <<>>
  /\ mounted' = [mounted EXCEPT !.after = Append(@, fn)]
  /\ UNCHANGED <<mjModelRef, mjDataRef, status, mountLoad, apiLoad, disposed,
                 siteIdRef, pausedRef, speedRef, substepsRef, stepsToRunRef,
                 onStepSet, onResetKind, ikEnabledRef, ikCalculatingRef, ikTargetRef,
                 gizmoAnimRef, dragRef, beforeStepCallbacks, ikHook, mon>>
  /\ UNCHANGED <<snapshot, captured, mjContact, contactEvents, stepLoop,
                 pairs, player, policy>>

UnregisterAfter(k) ==
  /\ ~disposed
  /\ k \in DOMAIN afterStepCallbacks
  /\ afterStepCallbacks' = SetDelete(afterStepCallbacks, k)
  /\ op' = "other" /\ trace' = <<>>
  /\ mounted' = [mounted EXCEPT !.after = Remove(@, k)]
  /\ UNCHANGED <<mjModelRef, mjDataRef, status, mountLoad, apiLoad, disposed,
                 siteIdRef, pausedRef, speedRef, substepsRef, stepsToRunRef,
                 onStepSet, onResetKind, ikEnabledRef, ikCalculatingRef, ikTargetRef,
                 gizmoAnimRef, dragRef, beforeStepCallbacks, ikHook, mon>>
  /\ UNCHANGED <<snapshot, captured, mjContact, contactEvents, stepLoop,
                 pairs, player, policy>>

\* DragInteraction pointer events: start, move or end a drag
DragPointer(f) ==
  /\ ~disposed
  /\ Has(beforeStepCallbacks, "drag")
  /\ mjDataRef # NULL
  /\ dragRef' = f
  /\ op' = "other" /\ trace' = <<>>
  /\ UNCHANGED <<mounted, mjModelRef, mjDataRef, status, mountLoad, apiLoad, disposed,
                 siteIdRef, pausedRef, speedRef, substepsRef, stepsToRunRef,
                 onStepSet, onResetKind, ikEnabledRef, ikCalculatingRef, ikTargetRef,
                 gizmoAnimRef, beforeStepCallbacks, afterStepCallbacks, ikHook, mon>>
  /\ UNCHANGED <<snapshot, captured, mjContact, contactEvents, stepLoop,
                 pairs, player, policy>>

\* ------------------------------------------------------------------------
\* useIkController
\* ------------------------------------------------------------------------
IkHookInit ==
  [enabled |-> FALSE, calculating |-> FALSE, target |-> 0, anim |-> IdleAnim,
   siteId |-> -1, needsInitialSync |-> TRUE]

HookUnchanged ==
  UNCHANGED <<snapshot, captured, mjContact, contactEvents, stepLoop,
              pairs, player, policy,
              mjModelRef, mjDataRef, status, mountLoad, apiLoad, disposed,
              siteIdRef, pausedRef, speedRef, substepsRef, stepsToRunRef,
              onStepSet, onResetKind, ikEnabledRef, ikCalculatingRef, ikTargetRef,
              gizmoAnimRef, dragRef, afterStepCallbacks, mon>>

MountIkController ==
  /\ ~disposed
  /\ ikHook = NULL
  /\ Len(beforeStepCallbacks) < MaxBefore
  /\ ikHook' = IkHookInit
  /\ beforeStepCallbacks' = SetAdd(beforeStepCallbacks, "ik")
  /\ mounted' = [mounted EXCEPT !.before = Append(@, "ik")]
  /\ op' = "other" /\ trace' = <<>>
  /\ HookUnchanged

UnmountIkController ==
  /\ ~disposed
  /\ ikHook # NULL
  /\ \E k \in DOMAIN beforeStepCallbacks :
       /\ beforeStepCallbacks[k] = "ik"
       /\ beforeStepCallbacks' = SetDelete(beforeStepCallbacks, k)
       /\ mounted' = [mounted EXCEPT !.before = Remove(@, k)]
  /\ ikHook' = NULL
  /\ op' = "other" /\ trace' = <<>>
  /\ HookUnchanged

\* The effect that resolves the site id when the model loads
IkResolvedSite ==
  IF mjModelRef = NULL \/ status # "ready" THEN -1 ELSE siteIdRef

IkSiteEffect ==
  /\ ~disposed
  /\ ikHook # NULL
  /\ ikHook.siteId # IkResolvedSite
  /\ ikHook' = [ikHook EXCEPT
                  !.siteId = IkResolvedSite,
                  !.target = IF mjModelRef # NULL /\ status = "ready" /\ mjDataRef # NULL
                             THEN syncGizmoToSite(mjDataRef, IkResolvedSite, ikHook.target)
                             ELSE ikHook.target]
  /\ op' = "other" /\ trace' = <<>>
  /\ UNCHANGED <<beforeStepCallbacks, mounted>>
  /\ HookUnchanged

\* The hook's own frame callback as a function of its refs: initial sync,
\* then the target animation at clock reading el
IkFrameFn(h, d, el) ==
  IF h = NULL THEN h
  ELSE LET synced == h.needsInitialSync /\ h.siteId # -1 /\ d # NULL
           h1 == IF synced
                 THEN [h EXCEPT !.target = syncGizmoToSite(d, h.siteId, h.target),
                                !.needsInitialSync = FALSE]
                 ELSE h
           a == AdvanceAnim(h1.anim, h1.target, el)
       IN [h1 EXCEPT !.target = a.target, !.anim = a.anim]

\* The hook's own frame callback (priority 0): initial sync, target animation
IkFrame ==
  /\ ~disposed
  /\ ikHook # NULL
  /\ \E el \in 0 .. AnimDuration :
       /\ IF ikHook.anim.active THEN el >= ikHook.anim.elapsed ELSE el = 0
       /\ ikHook' = IkFrameFn(ikHook, mjDataRef, el)
  /\ ikHook' # ikHook
  /\ op' = "other" /\ trace' = <<>>
  /\ UNCHANGED <<beforeStepCallbacks, mounted>>
  /\ HookUnchanged

IkSetEnabled(enabled) ==
  /\ ~disposed
  /\ ikHook # NULL
  /\ LET r == SetIkEnabledFn(enabled, mjDataRef, ikHook.anim, ikHook.siteId,
                             ikHook.target)
     IN ikHook' = [ikHook EXCEPT !.enabled = r.enabled, !.target = r.target]
  /\ op' = "other" /\ trace' = <<>>
  /\ UNCHANGED <<beforeStepCallbacks, mounted>>
  /\ HookUnchanged

IkMoveTarget(pos, duration) ==
  /\ ~disposed
  /\ ikHook # NULL
  /\ LET r == MoveTargetFn(pos, duration, ikHook.enabled, mjDataRef, ikHook.anim,
                           ikHook.siteId, ikHook.target)
     IN ikHook' = [ikHook EXCEPT !.enabled = r.enabled, !.target = r.target,
                                 !.anim = r.anim]
  /\ op' = "other" /\ trace' = <<>>
  /\ UNCHANGED <<beforeStepCallbacks, mounted>>
  /\ HookUnchanged

\* One render frame of a tree with the hook mounted: the provider's callback
\* (useFrame priority -1) runs first, the hook's callback (priority 0) after it
RenderFrame ==
  /\ ikHook # NULL
  /\ \E el \in 0 .. AnimDuration :
       /\ IF ikHook.anim.active THEN el >= ikHook.anim.elapsed ELSE el = 0
       /\ ProviderFrame(LAMBDA h, d : IkFrameFn(h, d, el))
  /\ UNCHANGED <<mjContact, contactEvents, stepLoop,
                 pairs, player, policy>>

\* ------------------------------------------------------------------------
\* Specification
\* ------------------------------------------------------------------------
Init ==
  /\ mjModelRef = NULL /\ mjDataRef = NULL
  /\ status = "loading" /\ mountLoad = "pending"
  /\ apiLoad = FALSE /\ disposed = FALSE
  /\ siteIdRef = -1
  /\ pausedRef = FALSE /\ speedRef = 1 /\ substepsRef = 1 /\ stepsToRunRef = 0
  /\ onStepSet \in BOOLEAN
  /\ onResetKind \in {"none", "setq"}
  /\ ikEnabledRef = FALSE /\ ikCalculatingRef = FALSE
  /\ ikTargetRef = 0 /\ gizmoAnimRef = IdleAnim
  /\ dragRef = 0
  /\ beforeStepCallbacks = <<>> /\ afterStepCallbacks = <<>>
  /\ mounted = [before |-> <<>>, after |-> <<>>]
  /\ ikHook = NULL
  /\ op = "other" /\ trace = <<>> /\ mon = MonIdle
  /\ snapshot = NULL /\ captured = NULL
  /\ mjContact = <<>> /\ contactEvents = NULL /\ stepLoop = NULL
  /\ pairs = [live |-> 0, stale |-> 0] /\ player = NULL /\ policy = NULL

Next ==
  \/ Tick
  \/ \E ts \in Timesteps, sid \in SiteIds : MountLoadResolve(ts, sid)
  \/ Dispose
  \/ LoadSceneStart
  \/ \E ts \in Timesteps, sid \in SiteIds : LoadSceneResolve(ts, sid)
  \/ reset
  \/ \E p \in BOOLEAN : setPaused(p)
  \/ togglePause
  \/ \E x \in Speeds : setSpeed(x)
  \/ \E n \in Substeps : SubstepsProp(n)
  \/ \E n \in 0 .. MaxStepReq : step(n)
  \/ \E e \in BOOLEAN : setIkEnabled(e)
  \/ \E pos \in Poses, dur \in {0, AnimDuration} : moveTarget(pos, dur)
  \/ \E fn \in BeforeFns : RegisterBefore(fn)
  \/ \E k \in 1 .. MaxBefore : UnregisterBefore(k)
  \/ \E fn \in AfterFns : RegisterAfter(fn)
  \/ \E k \in 1 .. MaxAfter : UnregisterAfter(k)
  \/ \E f \in 0 .. 1 : DragPointer(f)
  \/ MountIkController
  \/ UnmountIkController
  \/ IkSiteEffect
  \/ IkFrame
  \/ \E e \in BOOLEAN : IkSetEnabled(e)
  \/ \E pos \in Poses, dur \in {0, AnimDuration} : IkMoveTarget(pos, dur)

Spec == Init /\ [][Next]_vars

\* Single stepping, pause, speed and substeps, with one callback of each phase
InitStep ==
  Init /\ onResetKind = "none" /\ onStepSet = TRUE

NextStep ==
  \/ Tick
  \/ \E ts \in Timesteps : MountLoadResolve(ts, 0)
  \/ reset
  \/ \E p \in BOOLEAN : setPaused(p)
  \/ setIkEnabled(TRUE)
  \/ \E x \in Speeds : setSpeed(x)
  \/ \E n \in Substeps : SubstepsProp(n)
  \/ \E n \in 0 .. MaxStepReq : step(n)
  \/ RegisterBefore("gravcomp")
  \/ RegisterAfter("observer")

SpecStep == InitStep /\ [][NextStep]_vars

\* ------------------------------------------------------------------------
\* Properties
\* ------------------------------------------------------------------------
Attached == mjModelRef # NULL /\ mjDataRef # NULL

\* C1: a tick on an attached model with paused = true and no pending single
\* steps makes no engine step, runs no callback, does not call the step
\* observer and leaves time, qfrc_applied, qpos, qvel and ctrl as they were.
C1_PausedTickIsNoOp ==
  [][(op' = "tick" /\ Attached /\ pausedRef /\ stepsToRunRef = 0)
       => /\ trace' = <<>>
          /\ mjDataRef'.time = mjDataRef.time
          /\ mjDataRef'.qfrc_applied = mjDataRef.qfrc_applied
          /\ mjDataRef'.qpos = mjDataRef.qpos
          /\ mjDataRef'.qvel = mjDataRef.qvel
          /\ mjDataRef'.ctrl = mjDataRef.ctrl]_vars

\* A paused tick has run with callbacks and an observer registered, IK
\* enabled and forces left in the accumulator by an earlier tick.
C1_Witness ==
  /\ op = "tick" /\ Attached /\ pausedRef /\ stepsToRunRef = 0 /\ trace = <<>>
  /\ mjDataRef.qfrc_applied # Zeros
  /\ mjDataRef.time > 0
  /\ beforeStepCallbacks # <<>> /\ afterStepCallbacks # <<>>
  /\ onStepSet /\ ikEnabledRef

\* C2: with n > 0 single steps pending, a tick on an attached model calls
\* mj_step exactly n times, paused or not, whatever the speed and substeps,
\* and the pending count is 0 when the tick ends.
C2_SingleStepsExact ==
  [][(op' = "tick" /\ Attached /\ stepsToRunRef > 0)
       => /\ EngineSteps(trace') = stepsToRunRef
          /\ stepsToRunRef' = 0]_vars

\* A step(3) request was consumed by a tick of a running simulation at
\* speed 2 with 2 substeps.
C2_Witness ==
  /\ op = "tick" /\ Attached /\ ~pausedRef
  /\ mon.n = 3 /\ mon.ticks = 1 /\ mon.first = 3
  /\ speedRef = 2 /\ substepsRef = 2 /\ stepsToRunRef = 0

\* C3: paused, step(3), then three ticks: three engine steps in total, all of
\* them in the first tick; the second and third tick run no callback.
C3_StepThreeThenThreeTicks ==
  (pausedRef /\ mon.n = 3 /\ mon.ticks = 3)
    => (mon.first = 3 /\ mon.total = 3 /\ mon.cbs = 0)

\* The third tick after step(3) has run, with callbacks registered.
C3_Witness ==
  /\ op = "tick" /\ pausedRef /\ mon.n = 3 /\ mon.ticks = 3 /\ mon.total = 3
  /\ beforeStepCallbacks # <<>> /\ afterStepCallbacks # <<>>

\* Callbacks, forces and the order of the phases of a tick
InitForce ==
  Init /\ onResetKind = "none"

NextForce ==
  \/ Tick
  \/ MountLoadResolve(1, 0)
  \/ reset
  \/ \E p \in BOOLEAN : setPaused(p)
  \/ \E fn \in BeforeFns : RegisterBefore(fn)
  \/ \E k \in 1 .. MaxBefore : UnregisterBefore(k)
  \/ \E fn \in AfterFns : RegisterAfter(fn)
  \/ \E k \in 1 .. MaxAfter : UnregisterAfter(k)
  \/ \E f \in 0 .. 1 : DragPointer(f)
  \/ MountIkController
  \/ UnmountIkController
  \/ \E e \in BOOLEAN : setIkEnabled(e)

SpecForce == InitForce /\ [][NextForce]_vars

SteppingTick == op = "tick" /\ trace # <<>>
Kinds(tr, kind) == {k \in DOMAIN tr : tr[k].kind = kind}
Who(tr, kind) ==
  LET RECURSIVE Collect(_)
      Collect(k) == IF k > Len(tr) THEN <<>>
                    ELSE IF tr[k].kind = kind THEN <<tr[k].who>> \o Collect(k + 1)
                    ELSE Collect(k + 1)
  IN Collect(1)

\* C4: in every stepping tick qfrc_applied is zeroed once, for all nv entries,
\* before anything else: the first callback (or, without callbacks, the first
\* engine step) sees an all-zero accumulator.
C4_ZeroedBeforeCallbacks ==
  SteppingTick =>
    /\ trace[1].kind = "begin" /\ trace[2].kind = "zero"
    /\ Cardinality(Kinds(trace, "zero")) = 1
    /\ trace[2].qfrc = Zeros
    /\ Len(trace) >= 3 /\ trace[3].kind \in {"before", "ik", "mj_step"}
    /\ trace[3].qfrc = Zeros

\* A stepping tick started with forces of the previous tick in every entry of
\* the accumulator and ran a callback first.
C4_Witness ==
  /\ SteppingTick /\ trace[3].kind = "before"
  /\ \A i \in DOFs : trace[1].qfrc[i] # 0
  /\ mjDataRef.qfrc_applied = Zeros

\* C5: with gravity compensation and a drag force registered as two
\* before-step callbacks, in either order, every engine step of the tick and
\* the end of the tick see the sum of the two contributions.
C5_ForcesAdd ==
  [][(op' = "tick" /\ trace' # <<>> /\
        beforeStepCallbacks \in {<<"gravcomp", "drag">>, <<"drag", "gravcomp">>})
       => LET sum == [i \in DOFs |-> mjDataRef.qfrc_bias[i] + DragJac[i] * dragRef]
          IN /\ mjDataRef'.qfrc_applied = sum
             /\ \A k \in Kinds(trace', "mj_step") : trace'[k].qfrc = sum]_vars

\* The drag callback ran before the gravity compensation, both contributing.
C5_Witness ==
  /\ SteppingTick /\ beforeStepCallbacks = <<"drag", "gravcomp">> /\ dragRef = 1
  /\ mjDataRef.qfrc_applied = [i \in DOFs |-> Gravity[i] + DragJac[i]]
  /\ Kinds(trace, "mj_step") # {}

\* C6: the phases of a stepping tick do not interleave: zero, before-step
\* callbacks, engine steps, after-step callbacks, then the step observer, once,
\* with the time after the steps.
PhaseOf(kind) ==
  CASE kind = "begin" -> 0 [] kind = "zero" -> 1 [] kind = "before" -> 2
    [] kind = "ik" -> 3 [] kind = "mj_step" -> 4 [] kind = "after" -> 5
    [] kind = "onStep" -> 6 [] OTHER -> -1

C6_PhaseOrder ==
  SteppingTick =>
    /\ \A i, j \in DOMAIN trace : i < j => PhaseOf(trace[i].kind) <= PhaseOf(trace[j].kind)
    /\ \A k \in DOMAIN trace : PhaseOf(trace[k].kind) >= 0
    /\ Kinds(trace, "zero") = {2}
    /\ Kinds(trace, "mj_step") # {}
    /\ \A k \in Kinds(trace, "after") : trace[k].time = mjDataRef.time
    /\ onStepSet => /\ Kinds(trace, "onStep") = {Len(trace)}
                    /\ trace[Len(trace)].time = mjDataRef.time
    /\ ~onStepSet => Kinds(trace, "onStep") = {}

\* A tick ran callbacks of both phases around its engine steps and reported
\* the new time.
C6_Witness ==
  /\ SteppingTick /\ onStepSet
  /\ Cardinality(Kinds(trace, "before")) = 2
  /\ Kinds(trace, "after") # {}
  /\ Cardinality(Kinds(trace, "mj_step")) >= 2
  /\ trace[Len(trace)].time > trace[1].time
  /\ trace[Len(trace)].kind = "onStep"

\* C7: a stepping tick invokes each mounted before-step hook once in the
\* before phase and each mounted after-step hook once in the after phase, and
\* no callback of a hook that has been unmounted.
C7_OncePerTickWhileRegistered ==
  SteppingTick =>
    /\ Who(trace, "before") = mounted.before
    /\ Who(trace, "after") = mounted.after

\* A tick ran after one of two hooks had been unmounted.
C7_Witness ==
  /\ SteppingTick
  /\ mounted.before = <<"drag">> /\ Who(trace, "before") = <<"drag">>
  /\ mounted.after = <<>> /\ dragRef = 1

\* The number of entries of a sequence that equal fn
Count(seq, fn) == Cardinality({k \in DOMAIN seq : seq[k] = fn})

\* C21: two mounts of a hook with the same callback are two registry
\* entries: a stepping tick invokes the callback once per mounted use, and
\* the cleanup of one use removes one entry and leaves the other in place.
C21_TwoIndependentEntries ==
  /\ [](SteppingTick =>
          \A fn \in BeforeFns \cup AfterFns :
            /\ Count(Who(trace, "before"), fn) = Count(mounted.before, fn)
            /\ Count(Who(trace, "after"), fn) = Count(mounted.after, fn))
  /\ [][\A fn \in BeforeFns \cup AfterFns :
          /\ (Count(mounted.before, fn) = 2 /\ Count(mounted'.before, fn) = 1)
               => Count(beforeStepCallbacks', fn) = 1
          /\ (Count(mounted.after, fn) = 2 /\ Count(mounted'.after, fn) = 1)
               => Count(afterStepCallbacks', fn) = 1]_vars

\* A stepping tick ran the gravity compensation twice, adding it twice
C21_Witness ==
  /\ SteppingTick
  /\ Who(trace, "before") = <<"gravcomp", "gravcomp">>
  /\ mjDataRef.qfrc_applied = [i \in DOFs |-> 2 * Gravity[i]]

\* Scene load, runtime reload and disposal
InitLife ==
  Init /\ onResetKind = "none"

NextLife ==
  \/ Tick
  \/ \E sid \in SiteIds : MountLoadResolve(1, sid)
  \/ Dispose
  \/ LoadSceneStart
  \/ \E sid \in SiteIds : LoadSceneResolve(1, sid)
  \/ \E pos \in Poses, dur \in {0, AnimDuration} : moveTarget(pos, dur)
  \/ \E n \in 0 .. 1 : step(n)
  \/ RegisterBefore("gravcomp")
  \/ RegisterAfter("observer")

SpecLife == InitLife /\ [][NextLife]_vars

C8_WitnessUnloaded == op = "tick" /\ ~Attached /\ mountLoad = "pending" /\ ~disposed
C8_WitnessDisposed == op = "tick" /\ ~Attached /\ disposed /\ gizmoAnimRef.active

\* reset() and the two IK sessions
InitReset == Init /\ onStepSet = FALSE

NextReset ==
  \/ Tick
  \/ \E sid \in SiteIds : MountLoadResolve(1, sid)
  \/ reset
  \/ setIkEnabled(TRUE)
  \/ \E pos \in Poses : moveTarget(pos, AnimDuration)
  \/ MountIkController
  \/ IkSiteEffect
  \/ IkFrame
  \/ IkSetEnabled(TRUE)
  \/ \E pos \in Poses : IkMoveTarget(pos, AnimDuration)

SpecReset == InitReset /\ [][NextReset]_vars

ResetDone == op = "reset" /\ trace # <<>>
Before(tr, a, b) == \A i, j \in DOMAIN tr : (tr[i].kind = a /\ tr[j].kind = b) => i < j

\* C9 as stated: engine reset, home pose, forward kinematics, the host
\* onReset hook, and only then the IK resynchronisation.
C9_Original ==
  ResetDone =>
    /\ Before(trace, "mj_resetData", "home")
    /\ Before(trace, "home", "mj_forward")
    /\ Before(trace, "mj_forward", "onReset")
    /\ Before(trace, "onReset", "sync")

\* C9 amended: engine reset, home pose, the host onReset hook, forward
\* kinematics, then the IK resynchronisation.  The hook runs on the data as
\* mj_resetData and the home pose left it, before the derived poses are
\* recomputed; the resynchronisation sees the poses of the final qpos.
C9_ResetOrder ==
  ResetDone =>
    /\ trace[1].kind = "mj_resetData" /\ trace[2].kind = "home"
    /\ Before(trace, "home", "onReset")
    /\ Before(trace, "onReset", "mj_forward")
    /\ Before(trace, "mj_forward", "sync")
    /\ trace[Len(trace)].kind = "sync"
    /\ Cardinality(Kinds(trace, "mj_forward")) = 1
    /\ Cardinality(Kinds(trace, "onReset")) = IF onResetKind = "none" THEN 0 ELSE 1
    /\ \A k \in Kinds(trace, "onReset") : trace[k].site = 0
    /\ \A k \in Kinds(trace, "sync") : trace[k].site = FK(mjDataRef.qpos)

\* A reset has run with a host hook that moved a joint, so that the site pose
\* after the reset differs from the one the hook could see.
C9_Witness ==
  /\ ResetDone /\ onResetKind = "setq"
  /\ Kinds(trace, "onReset") # {} /\ siteIdRef # -1
  /\ mjDataRef.site_xpos = 2 /\ ikTargetRef = 2

\* The state reset() leaves behind, for the provider's session and for a
\* mounted useIkController
C10_AfterReset ==
  ResetDone =>
    /\ ~ikEnabledRef /\ ~gizmoAnimRef.active
    /\ mjDataRef.site_xpos = FK(mjDataRef.qpos)
    /\ siteIdRef # -1 => ikTargetRef = mjDataRef.site_xpos
    /\ ikHook # NULL =>
         /\ ~ikHook.enabled /\ ~ikHook.anim.active
         /\ ikHook.siteId # -1 => ikHook.target = mjDataRef.site_xpos

C10_NoIkWhileDisabled ==
  (op' = "tick" /\ Attached /\ ~ikEnabledRef /\ (ikHook = NULL \/ ~ikHook.enabled))
    => /\ mjDataRef'.ctrl = mjDataRef.ctrl
       /\ Kinds(trace', "ik") = {}

C10_WitnessReset ==
  /\ ResetDone /\ siteIdRef # -1 /\ ikHook # NULL /\ ikHook.siteId # -1
  /\ ikTargetRef = mjDataRef.site_xpos /\ ikHook.target = mjDataRef.site_xpos
  /\ gizmoAnimRef.endPos # ikTargetRef /\ gizmoAnimRef.startPos # gizmoAnimRef.endPos
  /\ ikHook.anim.endPos # ikHook.target

MaxJoints == NV + 1
IkTargets == {0, 4, 8, 10, NaN}
IkSeeds == {0, 1}
IkOpts ==
  {<<>>, [maxIterations |-> 0], [maxIterations |-> 1], [damping |-> 0]}
CurrentQs(n) == {[i \in 0 .. (n - 1) |-> seed] : seed \in IkSeeds} \cup {<<>>}

InitIk == Init /\ onResetKind = "none" /\ onStepSet = FALSE

NextIk ==
  \/ \E sid \in SiteIds : MountLoadResolve(1, sid)
  \/ \E sid \in SiteIds : MountLoadArm(sid)
  \/ \E siteId \in SiteIds, n \in {0, NumArmJoints, MaxJoints}, pos \in IkTargets, rot \in {0, 1},
        opts \in IkOpts :
       \E currentQ \in CurrentQs(n) :
         /\ opts # <<>> => (n = NumArmJoints /\ rot = 0 /\ siteId = 0)
         /\ siteId = -1 => (n = NumArmJoints /\ rot = 0)
         /\ GenericIkSolve(siteId, n, pos, rot, currentQ, opts)
  \/ \E pos \in IkTargets, currentQ \in CurrentQs(NumArmJoints) : solveIK(pos, currentQ)

SpecIk == InitIk /\ [][NextIk]_vars

\* The last operation was a call of GenericIK.solve, described by call
SolveDone == op = "solve" /\ trace[1].kind = "solve"
call == trace[1]

\* C12: whatever the outcome of GenericIK.solve, qpos after the call equals
\* qpos before it in every entry, and the derived site pose is the one of that
\* qpos: mj_forward ran after the restore.
C12_SolveRestoresQpos ==
  SolveDone =>
    /\ mjDataRef.qpos = call.before.qpos
    /\ mjDataRef.site_xpos = SitePos(mjModelRef, call.before.qpos)
    /\ mjDataRef.time = call.before.time /\ mjDataRef.ctrl = call.before.ctrl

\* A solve ran out of iterations, all of them singular, and its loop had left
\* qpos changed.
C12_Witness ==
  /\ SolveDone /\ Len(call.its) = MaxIter /\ call.o.maxIterations = MaxIter
  /\ \E k \in DOMAIN call.its : call.its[k].singular
  /\ call.left.qpos # call.before.qpos
  /\ mjDataRef.qpos = call.before.qpos

\* The same for a solve that converged after moving the joints
C12_WitnessConverged ==
  /\ SolveDone /\ Len(call.its) > 1 /\ ~call.its[Len(call.its)].jac
  /\ call.left.qpos # call.before.qpos
  /\ call.left.site_xpos # call.before.site_xpos

\* The seed as the solver reads it: a missing entry of currentQ is NaN
SeedOf(c) == [i \in 0 .. (c.n - 1) |-> IF i \in DOMAIN c.currentQ THEN c.currentQ[i] ELSE NaN]
Iterated == SolveDone /\ Len(call.its) >= 1
\* The error norm (squared) of the seed is below the tolerance
SeedWithinTolerance ==
  Iterated /\ Lt(call.its[1].err, Mul(call.o.tolerance, call.o.tolerance))

\* C15 as stated: a call that executed an iteration returns null only when
\* the site is absent or numJoints is 0, and otherwise a vector of length
\* numJoints.
C15_Original ==
  Iterated =>
    /\ call.result = NULL => (call.siteId = -1 \/ call.n = 0)
    /\ call.result # NULL => DOMAIN call.result.q = 0 .. (call.n - 1)

\* C15 amended: GenericIK.solve returns null exactly when no iterate it
\* evaluated has an error norm that is a number (no iteration at all, a
\* missing site, a NaN target or seed); otherwise it returns a vector of
\* length numJoints, the empty vector when numJoints is 0.  api.solveIK
\* returns null without touching the data when the model, the data or the
\* site is absent.
C15_NullWithoutFiniteError ==
  /\ SolveDone =>
       /\ call.result = NULL <=> (\A k \in DOMAIN call.its : call.its[k].err = NaN)
       /\ call.result # NULL => DOMAIN call.result.q = 0 .. (call.n - 1)
       /\ call.siteId = -1 => call.result = NULL
       /\ Len(call.its) >= 1 <=> call.o.maxIterations >= 1
  /\ (op = "solve" /\ trace[1].kind = "solveIK"
        /\ (mjModelRef = NULL \/ mjDataRef = NULL \/ siteIdRef = -1)) =>
       (trace[1].result = NULL /\ mjDataRef = trace[1].before)

\* A call on a present site with one joint and a NaN target ran all its
\* iterations and returned null.
C15_Witness ==
  /\ Iterated /\ call.siteId = 0 /\ call.n = NumArmJoints /\ call.targetPos = NaN
  /\ Len(call.its) = MaxIter /\ call.result = NULL

\* numJoints = 0: the empty vector, not null
C15_WitnessNoJoints ==
  Iterated /\ call.n = 0 /\ call.result # NULL /\ call.siteId = 0

\* The least index of an iterate whose error no other iterate is below
IsBest(its, k) ==
  /\ its[k].err # NaN
  /\ \A j \in DOMAIN its : ~Lt(its[j].err, its[k].err)
  /\ \A j \in 1 .. (k - 1) : its[j].err = NaN \/ Lt(its[k].err, its[j].err)

\* C16: the vector GenericIK.solve returns is the iterate with the smallest
\* error norm among those it evaluated, the earliest of them on a tie.
C16_ReturnsBestIterate ==
  (SolveDone /\ call.result # NULL) =>
    \E k \in DOMAIN call.its : IsBest(call.its, k) /\ call.result.q = call.its[k].q

\* The loop ended without converging on an iterate with a larger error than
\* the first one, which was returned.
C16_Witness ==
  /\ SolveDone /\ call.result # NULL /\ Len(call.its) = MaxIter
  /\ call.its[MaxIter].jac
  /\ Lt(call.its[1].err, call.its[MaxIter].err)
  /\ call.result.q = call.its[1].q /\ call.its[MaxIter].q # call.its[1].q

\* Two iterates tie and the earlier one is returned
C16_WitnessTie ==
  /\ SolveDone /\ call.result # NULL /\ Len(call.its) >= 2
  /\ call.its[1].err = call.its[2].err /\ call.its[1].q # call.its[2].q
  /\ call.result.q = call.its[1].q

\* C17: when the error norm at the seed is below tolerance the solve stops in
\* its first iteration, with one forward pass, no Jacobian, and returns the
\* seed.
C17_ConvergedAtSeed ==
  SeedWithinTolerance =>
    /\ Len(call.its) = 1
    /\ call.its[1].fks = 1 /\ ~call.its[1].jac
    /\ call.result = [q |-> SeedOf(call)]
    /\ call.result.q = [i \in 0 .. (call.n - 1) |-> call.currentQ[i]]

\* A solve converged at a seed that differs from the qpos it was called on.
C17_Witness ==
  /\ SeedWithinTolerance /\ call.n >= 1
  /\ call.left.qpos # call.before.qpos
  /\ call.o.maxIterations = MaxIter

\* C18: an iteration whose damped system is detected singular updates no
\* joint, the next iteration runs on the same q, and the solve goes on to
\* maxIterations and returns the best iterate.
C18_SingularIterationIsZeroUpdate ==
  SolveDone =>
    \A k \in DOMAIN call.its :
      call.its[k].singular =>
        /\ \A j \in 0 .. (call.n - 1) : call.its[k].dq[j] = 0
        /\ k < Len(call.its) => call.its[k + 1].q = call.its[k].q
        /\ Len(call.its) = call.o.maxIterations
        /\ call.its[k].err # NaN => call.result # NULL

\* A solve with joints met a singular system in its first iteration, ran the
\* remaining ones and returned a vector.
C18_Witness ==
  /\ SolveDone /\ call.n >= 1 /\ Len(call.its) = MaxIter
  /\ call.its[1].singular /\ call.its[MaxIter].singular
  /\ call.result # NULL /\ call.its[1].err > 0

\* What one IK phase did, from the data it started on (pre) and the data the
\* next phase started on (post)
IkPhaseEffect(pre, post, enabled, siteId, target) ==
  LET d == [mjDataRef EXCEPT !.qpos = pre.qpos, !.ctrl = pre.ctrl]
      currentQ == [i \in 0 .. (NumArmJoints - 1) |-> pre.qpos[i]]
      sol == ikSolveFn(mjModelRef, d, siteId, target, currentQ).result
  IN /\ post.qpos = pre.qpos
     /\ (~enabled \/ sol = NULL) => post.ctrl = pre.ctrl
     /\ (enabled /\ sol # NULL) =>
          post.ctrl = [i \in DOMAIN pre.ctrl |->
                         IF i < NumArmJoints THEN sol.q[i] ELSE pre.ctrl[i]]

\* C11: in a stepping tick a disabled IK session writes neither ctrl nor
\* qpos; an enabled one leaves qpos as it was and, when the solver seeded with
\* qpos[0..numJoints) returns a solution, overwrites exactly ctrl[0..numJoints)
\* with it; when the solver returns null ctrl is unchanged.
C11_IkPhaseEffect ==
  SteppingTick =>
    /\ \A k \in Kinds(trace, "ik") :
         IkPhaseEffect(trace[k], trace[k + 1], TRUE, siteIdRef, ikTargetRef)
    /\ \A k \in Kinds(trace, "before") :
         trace[k].who = "ik" =>
           IkPhaseEffect(trace[k], trace[k + 1], ikHook.enabled, ikHook.siteId,
                         ikHook.target)
    /\ ~ikEnabledRef => Kinds(trace, "ik") = {}
    /\ (~ikEnabledRef /\ (ikHook = NULL \/ ~ikHook.enabled)) =>
         \A k \in Kinds(trace, "mj_step") :
           (\A j \in Kinds(trace, "mj_step") : k <= j) =>
             (trace[k].ctrl = trace[1].ctrl /\ trace[k].qpos = trace[1].qpos)

\* The provider's IK phase of a tick wrote a solution to ctrl[0] that differs
\* from the seed and from the control it replaced, and left ctrl[1] alone.
C11_Witness ==
  /\ SteppingTick /\ ikEnabledRef
  /\ \E k \in Kinds(trace, "ik") :
       /\ trace[k + 1].ctrl # trace[k].ctrl
       /\ trace[k + 1].ctrl[0] # trace[k].qpos[0]
       /\ trace[k + 1].qpos = trace[k].qpos

\* An enabled session without a site: the solver returned null
C11_WitnessNull ==
  /\ SteppingTick /\ ikEnabledRef /\ siteIdRef = -1 /\ Kinds(trace, "ik") # {}

\* A mounted useIkController wrote a solution
C11_WitnessHook ==
  /\ SteppingTick /\ ikHook # NULL /\ ikHook.enabled
  /\ \E k \in Kinds(trace, "before") :
       trace[k].who = "ik" /\ trace[k + 1].ctrl # trace[k].ctrl

\* ------------------------------------------------------------------------
\* saveState / restoreState
\* ------------------------------------------------------------------------
InitSnap == Init /\ onResetKind = "none" /\ onStepSet = FALSE

NextSnap ==
  \/ Tick
  \/ MountLoadResolve(1, 0)
  \/ reset
  \/ RegisterBefore("gravcomp")
  \/ solveIK(0, Zeros)
  \/ saveState
  \/ \E s \in (IF snapshot = NULL THEN {} ELSE SnapshotInputs(snapshot)) :
       restoreState(s)

SpecSnap == InitSnap /\ [][NextSnap]_vars

RestoreDone == op = "restore" /\ trace # <<>> /\ trace[1].kind = "restoreState"

\* The snapshot was taken on a model of the dimensions of the live one
SameModel(s, d) == \A f \in SnapshotArrays : DOMAIN s[f] = DOMAIN d[f]

\* The state arrays and the clock of d are those of the snapshot, and the
\* derived quantities are those mj_forward computes from them
RestoredTo(m, d, s) ==
  /\ d.time = s.time
  /\ \A f \in SnapshotArrays : d[f] = s[f]
  /\ d = mj_forward(m, d)

\* C13: restoreState(s), for s taken by saveState on the same model, leaves
\* time, qpos, qvel, ctrl, act and qfrc_applied equal to the snapshot and the
\* derived quantities recomputed from them, whatever happened in between;
\* restoring the same snapshot again changes nothing.
C13_RestoreRoundTrip ==
  /\ [](RestoreDone /\ SameModel(trace[1].s, trace[1].before)
          => /\ trace[1].error = "none"
             /\ RestoredTo(mjModelRef, mjDataRef, trace[1].s))
  /\ [][(RestoreDone /\ SameModel(trace[1].s, trace[1].before)
           /\ op' = "restore" /\ trace'[1].s = trace[1].s)
          => mjDataRef' = mjDataRef]_vars

\* A restore of the host's snapshot that moved the clock, the joints, the
\* activations and the applied forces back
C13_Witness ==
  /\ RestoreDone /\ trace[1].s = snapshot
  /\ SameModel(trace[1].s, trace[1].before)
  /\ trace[1].before.time # snapshot.time
  /\ trace[1].before.qpos # snapshot.qpos
  /\ trace[1].before.act # snapshot.act
  /\ trace[1].before.qfrc_applied # snapshot.qfrc_applied
  /\ trace[1].before.site_xpos # mjDataRef.site_xpos

ProviderState ==
  <<mjModelRef, mjDataRef, status, mountLoad, apiLoad, disposed, siteIdRef,
    pausedRef, speedRef, substepsRef, stepsToRunRef, onStepSet, onResetKind,
    ikEnabledRef, ikCalculatingRef, ikTargetRef, gizmoAnimRef, dragRef,
    beforeStepCallbacks, afterStepCallbacks, ikHook>>

\* C25: before a model and data are attached, saveState() returns the empty
\* snapshot, solveIK returns null, and saveState, solveIK, restoreState and
\* reset leave every ref as it was, so that the ticks after the attach run
\* as if the calls had not been made.
C25_CallsBeforeAttach ==
  /\ []((op = "solve" /\ trace # <<>> /\ trace[1].kind = "solveIK"
          /\ trace[1].before = NULL) => trace[1].result = NULL)
  /\ [][(mjModelRef = NULL \/ mjDataRef = NULL)
          => /\ snapshot' # snapshot
                  => /\ snapshot'.time = 0
                     /\ \A f \in SnapshotArrays : snapshot'[f] = Float64Array0
             /\ (op' \in {"solve", "restore", "reset"} \/ snapshot' # snapshot)
                  => UNCHANGED ProviderState]_vars

\* A model was attached after the host had taken a snapshot without one,
\* and a tick has stepped it
C25_Witness ==
  /\ op = "tick" /\ trace # <<>>
  /\ snapshot # NULL /\ snapshot.qpos = Float64Array0
  /\ mjDataRef.time > 0

\* solveIK was called without a model and returned null
C25_WitnessSolve ==
  /\ op = "solve" /\ trace # <<>> /\ trace[1].kind = "solveIK"
  /\ trace[1].before = NULL /\ trace[1].result = NULL

\* C14: a restoreState whose snapshot has an array of another length than the
\* live model's fails with DimensionMismatch and writes nothing.
C14_MismatchRejected ==
  (RestoreDone /\ ~SameModel(trace[1].s, trace[1].before))
    => (trace[1].error = "DimensionMismatch" /\ mjDataRef = trace[1].before)

\* A snapshot with a shorter qpos is accepted without an error and its
\* prefix is written over the live state
C14_SilentTruncation ==
  /\ RestoreDone
  /\ Cardinality(DOMAIN trace[1].s.qpos) = NV - 1
  /\ trace[1].error = "none"
  /\ mjDataRef # trace[1].before

\* A snapshot with a longer qvel throws after time and qpos were written
C14_PartialWrite ==
  /\ RestoreDone
  /\ Cardinality(DOMAIN trace[1].s.qvel) = NV + 1
  /\ trace[1].error = "RangeError"
  /\ mjDataRef.qpos # trace[1].before.qpos

\* ------------------------------------------------------------------------
\* The time budget of a normal tick
\* ------------------------------------------------------------------------
\* A tick that steps in normal mode: attached, not paused, no pending steps
NormalTick == op' = "tick" /\ Attached /\ ~pausedRef /\ stepsToRunRef = 0

\* data.time after the normal stepping loop, as a function of its inputs
RECURSIVE LoopTime(_, _, _, _, _)
LoopTime(startSimTime, time, frameTime, numSubsteps, timestep) ==
  IF time - startSimTime < frameTime
  THEN LoopTime(startSimTime, time + numSubsteps * timestep, frameTime,
                numSubsteps, timestep)
  ELSE time

\* Real frame deltas the renderer measures: 1/60 s is FrameTime60
FrameDeltas == {1, FrameTime60, 2 * FrameTime60, 4 * FrameTime60, 8 * FrameTime60}

\* C19: in normal mode the time budget of a tick is the real frame delta,
\* clamped to 1/15 s, times the speed multiplier: whatever delta the renderer
\* measured, the tick advances time as the stepping loop does under that budget.
C19_BudgetFollowsRealDelta ==
  [][NormalTick
       => \A delta \in FrameDeltas :
            mjDataRef'.time =
              LoopTime(mjDataRef.time, mjDataRef.time,
                       Min(delta, 4 * FrameTime60) * speedRef,
                       substepsRef, mjModelRef.timestep)]_vars

\* A normal tick at speed 1, with a timestep and substep count that can meet
\* any budget exactly, advanced time by 1/60 s
C19_FixedBudget ==
  /\ op = "tick" /\ trace # <<>> /\ trace[1].who = "normal"
  /\ speedRef = 1 /\ mjModelRef.timestep = 1 /\ substepsRef = 1
  /\ mjDataRef.time - trace[1].time = FrameTime60

\* C20 as stated: the time advance of a normal tick is the same for every
\* substep count, other inputs fixed.
C20_Original ==
  [][NormalTick
       => \A n \in Substeps :
            mjDataRef'.time =
              LoopTime(mjDataRef.time, mjDataRef.time, FrameTime60 * speedRef,
                       n, mjModelRef.timestep)]_vars

\* C20 (amended): a normal tick makes the least whole number of batches of
\* substeps engine steps that brings time to the frame's budget or beyond, so
\* the advance overshoots the budget by less than one batch and is the same
\* for two substep counts exactly when their least multiples coincide.
C20_LeastBatchMultiple ==
  [][NormalTick
       => /\ EngineSteps(trace') % substepsRef = 0
          /\ mjDataRef'.time - mjDataRef.time
               = EngineSteps(trace') * mjModelRef.timestep
          /\ mjDataRef'.time - mjDataRef.time >= FrameTime60 * speedRef
          /\ (EngineSteps(trace') - substepsRef) * mjModelRef.timestep
               < FrameTime60 * speedRef
          /\ mjDataRef'.time =
               LoopTime(mjDataRef.time, mjDataRef.time, FrameTime60 * speedRef,
                        substepsRef, mjModelRef.timestep)]_vars

\* A normal tick whose batch overshot the budget: twice the time that
\* single substeps would have advanced
C20_Witness ==
  /\ op = "tick" /\ trace # <<>> /\ trace[1].who = "normal"
  /\ substepsRef = 2 /\ EngineSteps(trace) = 2
  /\ mjDataRef.time - trace[1].time > FrameTime60 * speedRef
  /\ mjDataRef.time - trace[1].time
       # LoopTime(0, 0, FrameTime60 * speedRef, 1, mjModelRef.timestep)

\* ------------------------------------------------------------------------
\* The home pose
\* ------------------------------------------------------------------------
\* Actuator i drives a hinge (3) or slide (2) joint through a joint transmission
DrivesScalarJoint(i) ==
  /\ ActuatorTrntype[i] = 0
  /\ ActuatorTrnid[2 * i] \in DOFs
  /\ JntType[ActuatorTrnid[2 * i]] \in {2, 3}

\* The pose the claim describes: ctrl holds the home values, and so does
\* qpos at the address of every scalar joint an actuator drives
HomePose(d) ==
  \A i \in DOMAIN HomeJoints :
    /\ d.ctrl[i] = HomeJoints[i]
    /\ DrivesScalarJoint(i) => d.qpos[JntQposAdr[ActuatorTrnid[2 * i]]] = HomeJoints[i]

\* C22: after reset() with homeJoints configured, and after loadScene, ctrl[i]
\* is homeJoints[i] for every i, and so is the qpos entry of the hinge or
\* slide joint that actuator i drives.
C22_HomePoseApplied ==
  [][((op' = "reset" /\ mjDataRef' # NULL) \/ (mjDataRef = NULL /\ mjDataRef' # NULL))
       => HomePose(mjDataRef')]_vars

\* After a reset the controls are at home, and the joint of an actuator whose
\* second transmission id is not 1 was left at the engine's reset value
C22_QposNotWritten ==
  /\ op = "reset" /\ mjDataRef # NULL
  /\ mjDataRef.ctrl = [i \in DOFs |-> HomeJoints[i]]
  /\ \E i \in DOFs :
       /\ DrivesScalarJoint(i) /\ ActuatorTrnid[2 * i + 1] # 1
       /\ mjDataRef.qpos[JntQposAdr[ActuatorTrnid[2 * i]]] # HomeJoints[i]

\* ------------------------------------------------------------------------
\* Target animation and the IK solve of the same frame
\* ------------------------------------------------------------------------
InitAnim == Init /\ onResetKind = "none" /\ onStepSet = FALSE

\* Target poses far enough apart for the solver to tell them from each other
AnimPoses == {0, 4}

NextAnim ==
  \/ RenderFrame
  \/ MountLoadResolve(1, 0)
  \/ reset
  \/ MountIkController
  \/ IkSiteEffect
  \/ IkSetEnabled(TRUE)
  \/ \E pos \in AnimPoses : IkMoveTarget(pos, AnimDuration)
  \/ setIkEnabled(TRUE)
  \/ \E pos \in AnimPoses : moveTarget(pos, AnimDuration)

SpecAnim == InitAnim /\ [][NextAnim]_vars

\* A frame that ran the stepping phases
SteppingFrame == op' = "tick" /\ trace' # <<>>

\* The controls after the frame are those an IK step on the target writes
CtrlSolvedFor(target, siteId) ==
  mjDataRef'.ctrl = IkStep(mjModelRef, mjDataRef, siteId, target).ctrl

\* C23: while a target animation is active, a tick advances the target along
\* the ease-out cubic before the IK solve of that tick reads it, for the
\* provider's session and for the hook's; the tick at which the elapsed time
\* has reached the duration leaves the target at the end pose and the
\* animation inactive.
C23_AnimationBeforeSolve ==
  [][SteppingFrame =>
       /\ (gizmoAnimRef.active /\ ikEnabledRef)
            => CtrlSolvedFor(ikTargetRef', siteIdRef)
       /\ (ikHook # NULL /\ ikHook.anim.active /\ ikHook.enabled /\ ~ikEnabledRef)
            => CtrlSolvedFor(ikHook'.target, ikHook.siteId)
       /\ (gizmoAnimRef.active /\ ~gizmoAnimRef'.active)
            => ikTargetRef' = gizmoAnimRef.endPos
       /\ (ikHook # NULL /\ ikHook.anim.active /\ ~ikHook'.anim.active)
            => ikHook'.target = ikHook.anim.endPos]_vars

\* The provider's session alone satisfies the order the claim states
C23_ProviderOrder ==
  [][SteppingFrame =>
       /\ (gizmoAnimRef.active /\ ikEnabledRef /\ (ikHook = NULL \/ ~ikHook.enabled))
            => CtrlSolvedFor(ikTargetRef', siteIdRef)
       /\ (gizmoAnimRef.active /\ ~gizmoAnimRef'.active)
            => ikTargetRef' = gizmoAnimRef.endPos]_vars

\* The hook's solve read the pose of the frame before: the frame ended the
\* animation at the end pose, and the controls are those of the earlier pose
C23_HookSolveLags ==
  /\ op = "tick" /\ trace # <<>> /\ ikHook # NULL
  /\ ikHook.enabled /\ ~ikHook.anim.active /\ ~ikEnabledRef
  /\ ikHook.target = ikHook.anim.endPos
  /\ \E k \in DOMAIN trace :
       /\ trace[k].kind = "before" /\ trace[k].who = "ik"
       /\ mjDataRef.ctrl # trace[k].ctrl
       /\ mjDataRef.ctrl
            # IkStep(mjModelRef, [mjDataRef EXCEPT !.qpos = trace[k].qpos,
                                                   !.site_xpos = trace[k].site,
                                                   !.ctrl = trace[k].ctrl],
                     ikHook.siteId, ikHook.target).ctrl

\* ------------------------------------------------------------------------
\* A pending single-step request and the calls made before its tick
\* ------------------------------------------------------------------------
InitPending == Init /\ onResetKind = "none" /\ onStepSet = FALSE

NextPending ==
  \/ Tick
  \/ MountLoadResolve(1, 0)
  \/ \E n \in 0 .. MaxStepReq : step(n)
  \/ \E p \in BOOLEAN : setPaused(p)
  \/ togglePause
  \/ \E x \in Speeds : setSpeed(x)
  \/ reset

SpecPending == InitPending /\ [][NextPending]_vars

\* C26 as stated: while a single-step request is pending, nothing but the
\* tick that consumes it changes the pending count.
C26_Original ==
  [][(stepsToRunRef > 0 /\ op' # "tick") => stepsToRunRef' = stepsToRunRef]_vars

\* C26 (amended): a pending request is changed only by a further step(m),
\* which replaces the pending count by m, and by the tick that consumes it:
\* setPaused, togglePause, setSpeed and reset leave the count as it is, and
\* the tick on an attached model runs the count pending when it starts and
\* clears it.
C26_PendingUntilTickOrStep ==
  [][/\ (op' # "tick" /\ stepsToRunRef' # stepsToRunRef)
          => \E m \in 0 .. MaxStepReq : step(m) /\ stepsToRunRef' = m
     /\ (op' = "tick" /\ stepsToRunRef > 0)
          => IF Attached
             THEN EngineSteps(trace') = stepsToRunRef /\ stepsToRunRef' = 0
             ELSE stepsToRunRef' = stepsToRunRef]_vars

\* A reset ran on an attached model while three steps were pending
C26_Witness ==
  /\ op = "reset" /\ trace # <<>> /\ stepsToRunRef = 3

\* ------------------------------------------------------------------------
\* Control vectors of another length than the model's
\* ------------------------------------------------------------------------
InitHome == Init /\ onResetKind = "none" /\ onStepSet = FALSE

NextHome ==
  \/ Tick
  \/ MountLoadResolve(1, 0)
  \/ MountLoadOf(LongHomeModel, 0)
  \/ reset
  \/ \E p \in BOOLEAN : setPaused(p)
  \/ setIkEnabled(TRUE)
  \/ \E pos \in AnimPoses : moveTarget(pos, 0)

SpecHome == InitHome /\ [][NextHome]_vars

\* The homeJoints list of the loaded scene has another length than ctrl
HomeMismatch ==
  Attached /\ Cardinality(DOMAIN HomeJointsOf(mjModelRef)) # Cardinality(DOMAIN mjDataRef.ctrl)

\* C27, for the home pose writer: a reset() whose homeJoints list does not
\* have the length of ctrl fails and writes no control: ctrl is left as the
\* engine reset left it.
C27_MismatchedCtrlWriteFails ==
  (op = "reset" /\ trace # <<>> /\ HomeMismatch)
    => /\ \E k \in DOMAIN trace : trace[k].kind = "error"
       /\ mjDataRef.ctrl = trace[2].ctrl

\* A reset with a homeJoints list one entry longer than ctrl wrote the
\* entries that fit and dropped the last one, without an error
C27_SilentDrop ==
  /\ op = "reset" /\ trace # <<>> /\ HomeMismatch
  /\ trace[2].kind = "home" /\ trace[2].ctrl = Zeros
  /\ mjDataRef.ctrl = [i \in DOFs |-> HomeJointsOf(mjModelRef)[i]]
  /\ \A k \in DOMAIN trace : trace[k].kind # "error"

\* ------------------------------------------------------------------------
\* Contact events (useContacts / useContactEvents)
\* ------------------------------------------------------------------------
Geoms == 0 .. (NGeom - 1)

\* model.geom_bodyid: geom g belongs to body g (body 0 is the world)
GeomBodyid == [g \in Geoms |-> g]

\* findBodyByName(model, bodyName) for the tracked body's name
findBodyByName(m) == TrackedBody

\* The contact points the engine can report after a step
ContactPoints ==
  {c \in [geom1 : Geoms, geom2 : Geoms] : c.geom1 # c.geom2}
ContactLists == UNION {[1 .. n -> ContactPoints] : n \in 0 .. MaxContacts}

\* Variant: the key keeps the order in which the engine reports the geoms
PairKeyOrdered(c) == <<c.geom1, c.geom2>>

\* `${Math.min(c.geom1, c.geom2)}_${Math.max(c.geom1, c.geom2)}`
PairKey(c) ==
  <<IF c.geom1 < c.geom2 THEN c.geom1 ELSE c.geom2,
    IF c.geom1 < c.geom2 THEN c.geom2 ELSE c.geom1>>

InSeq(seq, x) == \E k \in DOMAIN seq : seq[k] = x

\* The keys of the contacts, in the insertion order of a Set
RECURSIVE KeysOf(_, _, _)
KeysOf(contacts, i, acc) ==
  IF i > Len(contacts) THEN acc
  ELSE KeysOf(contacts, i + 1,
              IF InSeq(acc, PairKey(contacts[i])) THEN acc
              ELSE Append(acc, PairKey(contacts[i])))

\* Map.set per contact: the last contact of a key stays
MapOf(contacts) ==
  [k \in {PairKey(contacts[i]) : i \in DOMAIN contacts} |->
     contacts[CHOOSE i \in DOMAIN contacts :
                /\ PairKey(contacts[i]) = k
                /\ \A j \in DOMAIN contacts : PairKey(contacts[j]) = k => j <= i]]

\* The unordered geom pair an event or a contact is about
Unordered(key) == {key[1], key[2]}

\* The handler calls a list of keys gives rise to
EventsOf(kind, keys, map) ==
  [i \in DOMAIN keys |-> [kind |-> kind, key |-> keys[i], info |-> map[keys[i]]]]

\* The last event of a pair after the handlers of this phase were called
RECURSIVE LastAfter(_, _, _)
LastAfter(last, fired, i) ==
  IF i > Len(fired) THEN last
  ELSE LastAfter([last EXCEPT ![Unordered(fired[i].key)] = fired[i].kind], fired, i + 1)

\* The unordered pairs with at least one contact point
InContact(cs) == {{cs[i].geom1, cs[i].geom2} : i \in DOMAIN cs}

AllPairs == {{a, b} : a \in Geoms, b \in Geoms} \ {{a} : a \in Geoms}

\* onContacts of useContactEvents: h holds prevPairsRef and prevContactMapRef;
\* fired is the list of handler calls made, prior and last follow each pair
onContacts(h, contacts) ==
  LET currentPairs == KeysOf(contacts, 1, <<>>)
      currentMap == MapOf(contacts)
      entered == SelectSeq(currentPairs, LAMBDA k : ~InSeq(h.prevPairs, k))
      exited == SelectSeq(h.prevPairs,
                          LAMBDA k : ~InSeq(currentPairs, k) /\ k \in DOMAIN h.prevMap)
      fired == EventsOf("enter", entered, currentMap)
                 \o EventsOf("exit", exited, h.prevMap)
  IN [h EXCEPT !.prevPairs = currentPairs,
               !.prevMap = currentMap,
               !.fired = fired,
               !.prior = h.last,
               !.last = LastAfter(h.last, fired, 1)]

\* The after-step callback of useContacts: data.contact is cs, ncon its length
useContactsStep(h, m, cs) ==
  LET bodyId == IF ~h.bodyResolved THEN findBodyByName(m) ELSE h.bodyId
      involves(c) == GeomBodyid[c.geom1] = bodyId \/ GeomBodyid[c.geom2] = bodyId
      contacts == IF Len(cs) = 0 THEN <<>>
                  ELSE SelectSeq(cs, LAMBDA c : bodyId < 0 \/ involves(c))
      h1 == onContacts([h EXCEPT !.bodyId = bodyId, !.bodyResolved = TRUE], contacts)
  IN [h1 EXCEPT !.seen = InContact(cs), !.before = h.seen]

\* A component with useContactEvents(bodyName, handlers) mounts
MountContactEvents ==
  /\ ~disposed
  /\ contactEvents = NULL
  /\ contactEvents' =
       [bodyId |-> IF status = "ready" /\ mjModelRef # NULL
                   THEN findBodyByName(mjModelRef) ELSE -1,
        bodyResolved |-> status = "ready" /\ mjModelRef # NULL,
        prevPairs |-> <<>>, prevMap |-> <<>>, fired |-> <<>>,
        seen |-> {}, before |-> {},
        prior |-> [p \in AllPairs |-> "none"],
        last |-> [p \in AllPairs |-> "none"]]
  /\ afterStepCallbacks' = SetAdd(afterStepCallbacks, "contacts")
  /\ mounted' = [mounted EXCEPT !.after = Append(@, "contacts")]
  /\ op' = "other" /\ trace' = <<>>
  /\ UNCHANGED <<mjModelRef, mjDataRef, status, mountLoad, apiLoad, disposed,
                 siteIdRef, pausedRef, speedRef, substepsRef, stepsToRunRef,
                 onStepSet, onResetKind, ikEnabledRef, ikCalculatingRef, ikTargetRef,
                 gizmoAnimRef, dragRef, beforeStepCallbacks, ikHook, mon>>
  /\ UNCHANGED <<snapshot, captured, mjContact, stepLoop, pairs, player, policy>>

\* The component unmounts: the effect's cleanup deletes the wrapper
UnmountContactEvents ==
  /\ ~disposed
  /\ contactEvents # NULL
  /\ \E k \in DOMAIN afterStepCallbacks :
       /\ afterStepCallbacks[k] = "contacts"
       /\ afterStepCallbacks' = SetDelete(afterStepCallbacks, k)
       /\ mounted' = [mounted EXCEPT !.after = Remove(@, k)]
  /\ contactEvents' = NULL
  /\ op' = "other" /\ trace' = <<>>
  /\ UNCHANGED <<mjModelRef, mjDataRef, status, mountLoad, apiLoad, disposed,
                 siteIdRef, pausedRef, speedRef, substepsRef, stepsToRunRef,
                 onStepSet, onResetKind, ikEnabledRef, ikCalculatingRef, ikTargetRef,
                 gizmoAnimRef, dragRef, beforeStepCallbacks, ikHook, mon>>
  /\ UNCHANGED <<snapshot, captured, mjContact, stepLoop, pairs, player, policy>>

\* A frame whose engine steps end with the contact list cs
ContactFrame ==
  /\ ProviderFrame(LAMBDA h, d : h)
  /\ UNCHANGED <<stepLoop, pairs, player, policy>>
  /\ IF trace' = <<>> THEN UNCHANGED <<mjContact, contactEvents>>
     ELSE \E cs \in ContactLists :
            /\ mjContact' = cs
            /\ contactEvents' =
                 IF contactEvents # NULL /\ Has(afterStepCallbacks, "contacts")
                 THEN useContactsStep(contactEvents, mjModelRef, cs)
                 ELSE contactEvents

InitContact == Init /\ onResetKind = "none" /\ onStepSet = FALSE

NextContact ==
  \/ ContactFrame
  \/ MountLoadResolve(1, 0)
  \/ MountContactEvents
  \/ UnmountContactEvents
  \/ step(1)

SpecContact == InitContact /\ [][NextContact]_vars

\* The unordered pairs with a geom of the tracked body
BodyPairs ==
  {p \in AllPairs : \E g \in p : GeomBodyid[g] = TrackedBody}

\* How often a handler was called for a pair in the last after-step phase
Fired(h, kind, p) ==
  Cardinality({k \in DOMAIN h.fired :
                 h.fired[k].kind = kind /\ Unordered(h.fired[k].key) = p})

\* The after-step phase of the last tick called the hook's callback
ContactPhase ==
  contactEvents # NULL /\ op = "tick" /\ trace # <<>>

\* C28: in every after-step phase and for every unordered pair with a geom
\* of the tracked body, onEnter is called once if the pair is in contact
\* and was absent in the hook's previous phase and not at all otherwise,
\* onExit is called once if it is absent and was in contact and not at all
\* otherwise, and the calls for a pair alternate, the first being onEnter.
C28_EnterExitAlternate ==
  ContactPhase =>
    \A p \in BodyPairs :
      LET now == p \in InContact(mjContact)
          was == p \in contactEvents.before
      IN /\ Fired(contactEvents, "enter", p) = (IF now /\ ~was THEN 1 ELSE 0)
         /\ Fired(contactEvents, "exit", p) = (IF ~now /\ was THEN 1 ELSE 0)
         /\ Fired(contactEvents, "enter", p) = 1
              => contactEvents.prior[p] \in {"none", "exit"}
         /\ Fired(contactEvents, "exit", p) = 1
              => contactEvents.prior[p] = "enter"

\* A pair reported with two contact points, one in each geom order, comes
\* back into contact after an exit: one onEnter is called
C28_Witness ==
  /\ ContactPhase
  /\ Len(mjContact) = 2
  /\ mjContact[1] = [geom1 |-> 2, geom2 |-> 1]
  /\ mjContact[2] = [geom1 |-> 1, geom2 |-> 2]
  /\ contactEvents.prior[{1, 2}] = "exit"
  /\ Fired(contactEvents, "enter", {1, 2}) = 1

\* ------------------------------------------------------------------------
\* The stepping loops of a tick, one iteration at a time
\* ------------------------------------------------------------------------
LoopUnchanged ==
  UNCHANGED <<mjModelRef, status, mountLoad, apiLoad, disposed, siteIdRef,
              pausedRef, speedRef, substepsRef, onStepSet, onResetKind,
              ikEnabledRef, ikCalculatingRef, ikTargetRef, gizmoAnimRef, dragRef,
              beforeStepCallbacks, afterStepCallbacks, mounted, ikHook, mon,
              snapshot, captured, mjContact, contactEvents, pairs, player, policy>>

\* The tick reaches "Step physics with substeps"
BeginStepLoop ==
  /\ stepLoop = NULL
  /\ mjModelRef # NULL /\ mjDataRef # NULL
  /\ ShouldStep(pausedRef, stepsToRunRef)
  /\ mjDataRef.time < MaxClock
  /\ stepLoop' = IF stepsToRunRef > 0
                 THEN [mode |-> "single", s |-> 0]
                 ELSE [mode |-> "normal", startSimTime |-> mjDataRef.time,
                       frameTime |-> FrameTime60 * speedRef, odd |-> FALSE]
  /\ op' = "other" /\ trace' = <<>>
  /\ UNCHANGED <<mjDataRef, stepsToRunRef>>
  /\ LoopUnchanged

\* The data after n calls of mj_step
StepsOf(n, m, d) == StepTimes(n, m, [d |-> d, hook |-> NULL, tr |-> <<>>]).d

\* One pass of the while loop's body: numSubsteps calls of mj_step
StepLoopBatch ==
  /\ stepLoop # NULL /\ stepLoop.mode = "normal"
  /\ mjDataRef.time - stepLoop.startSimTime < stepLoop.frameTime
  /\ mjDataRef' = StepsOf(substepsRef, mjModelRef, mjDataRef)
  /\ stepLoop' = [stepLoop EXCEPT !.odd = ~@]
  /\ op' = "other" /\ trace' = <<>>
  /\ UNCHANGED stepsToRunRef
  /\ LoopUnchanged

\* One pass of the single-step for loop
StepLoopSingle ==
  /\ stepLoop # NULL /\ stepLoop.mode = "single"
  /\ stepLoop.s < stepsToRunRef
  /\ mjDataRef' = StepsOf(1, mjModelRef, mjDataRef)
  /\ stepLoop' = [stepLoop EXCEPT !.s = @ + 1]
  /\ op' = "other" /\ trace' = <<>>
  /\ UNCHANGED stepsToRunRef
  /\ LoopUnchanged

\* The loop's condition fails: the tick goes on to the after-step callbacks
EndStepLoop ==
  /\ stepLoop # NULL
  /\ IF stepLoop.mode = "single"
     THEN stepLoop.s >= stepsToRunRef /\ stepsToRunRef' = 0
     ELSE /\ ~(mjDataRef.time - stepLoop.startSimTime < stepLoop.frameTime)
          /\ UNCHANGED stepsToRunRef
  /\ stepLoop' = NULL
  /\ op' = "other" /\ trace' = <<>>
  /\ UNCHANGED mjDataRef
  /\ LoopUnchanged

InitLoop == Init /\ onResetKind = "none" /\ onStepSet = FALSE

\* Between ticks the host changes the configuration; the loop is not interrupted
NextLoop ==
  \/ BeginStepLoop
  \/ StepLoopBatch
  \/ StepLoopSingle
  \/ EndStepLoop
  \/ stepLoop = NULL /\ \E ts \in Timesteps : MountLoadResolve(ts, 0)
  \/ stepLoop = NULL /\ \E p \in BOOLEAN : setPaused(p)
  \/ stepLoop = NULL /\ \E x \in Speeds : setSpeed(x)
  \/ stepLoop = NULL /\ \E n \in Substeps : SubstepsProp(n)
  \/ stepLoop = NULL /\ \E n \in 1 .. MaxStepReq : step(n)

\* A loop that has been entered keeps running until its condition fails
SpecLoop ==
  /\ InitLoop /\ [][NextLoop]_vars
  /\ WF_vars(StepLoopBatch) /\ WF_vars(StepLoopSingle) /\ WF_vars(EndStepLoop)

\* The configuration satisfies the stated invariants
StepConfigValid ==
  /\ speedRef > 0 /\ substepsRef >= 1 /\ stepsToRunRef >= 0
  /\ mjModelRef # NULL => mjModelRef.timestep > 0

\* C30: with a positive speed, at least one substep, a finite step request
\* and a positive timestep, a tick that has entered its stepping loop leaves
\* it again: it terminates after finitely many engine steps.
C30_TickTerminates ==
  (stepLoop # NULL /\ StepConfigValid) ~> (stepLoop = NULL)

\* The while loop has run a batch and the clock did not move: time plus the
\* positive timestep rounds back to time, and the budget is not used up
C30_ClockStalled ==
  /\ stepLoop # NULL /\ stepLoop.mode = "normal" /\ stepLoop.odd
  /\ StepConfigValid
  /\ mjDataRef.time - stepLoop.startSimTime < stepLoop.frameTime
  /\ StepsOf(substepsRef, mjModelRef, mjDataRef).time = mjDataRef.time

\* ------------------------------------------------------------------------
\* The batches of a normal tick
\* ------------------------------------------------------------------------
\* The engine steps of the last tick, each with the data it started from
StepEvents == SelectSeq(trace, LAMBDA e : e.kind = "mj_step")

\* The last operation was a tick that stepped in normal mode
NormalTickDone == op = "tick" /\ trace # <<>> /\ trace[1].who = "normal"

C31_WitnessOvershoot ==
  /\ NormalTickDone
  /\ Len(StepEvents) = substepsRef
  /\ mjDataRef.time - trace[1].time > FrameTime60 * speedRef

\* ------------------------------------------------------------------------
\* Forces applied through the API between ticks
\* ------------------------------------------------------------------------
\* The values a host passes to applyGeneralizedForce: one entry set, in an
\* array of length nv or shorter
ForceInputs ==
  {[i \in DOFs |-> IF i = j THEN 1 ELSE 0] : j \in DOFs} \cup {[i \in {0} |-> 1]}

\* api.applyGeneralizedForce(values): qfrc_applied[i] += values[i]
applyGeneralizedForce(values) ==
  /\ IF mjDataRef = NULL THEN UNCHANGED mjDataRef
     ELSE /\ mjDataRef' =
               [mjDataRef EXCEPT !.qfrc_applied =
                  [i \in DOFs |-> IF mjModelRef # NULL /\ i \in DOMAIN values
                                  THEN @[i] + values[i] ELSE @[i]]]
          /\ \A i \in DOFs : mjDataRef'.qfrc_applied[i] <= MaxForce
  /\ op' = "apply" /\ trace' = <<>>
  /\ UNCHANGED <<snapshot, captured>>
  /\ SnapshotUnchanged

\* api.applyForce(bodyName, force, point) on a body of the model
applyForce(f) ==
  /\ IF mjModelRef = NULL \/ mjDataRef = NULL THEN UNCHANGED mjDataRef
     ELSE /\ mjDataRef' = mj_applyFT(mjDataRef, f)
          /\ \A i \in DOFs : mjDataRef'.qfrc_applied[i] <= MaxForce
  /\ op' = "apply" /\ trace' = <<>>
  /\ UNCHANGED <<snapshot, captured>>
  /\ SnapshotUnchanged

InitApply == Init /\ onResetKind = "none" /\ onStepSet = FALSE

NextApply ==
  \/ Tick
  \/ MountLoadResolve(1, 0)
  \/ \E v \in ForceInputs : applyGeneralizedForce(v)
  \/ applyForce(1)
  \/ saveState
  \/ snapshot # NULL /\ restoreState(snapshot)
  \/ RegisterBefore("gravcomp")
  \/ \E p \in BOOLEAN : setPaused(p)

SpecApply == InitApply /\ [][NextApply]_vars

\* What the before-step callbacks of a tick added to entry i
CallbackForce(tr, i) == Count(Who(tr, "before"), "gravcomp") * Gravity[i]

\* C32: a force added to qfrc_applied between ticks, by applyForce or
\* applyGeneralizedForce or by restoreState, is in qfrc_applied (next to what
\* the before-step callbacks add) when the first engine step of the next
\* stepping tick runs.
C32_ForceReachesEngine ==
  [][(op \in {"apply", "restore"} /\ mjDataRef # NULL /\ op' = "tick" /\ trace' # <<>>)
       => LET steps == SelectSeq(trace', LAMBDA e : e.kind = "mj_step")
          IN \A i \in DOFs :
               steps[1].qfrc[i] = mjDataRef.qfrc_applied[i] + CallbackForce(trace', i)]_vars

\* A tick began with a force in qfrc_applied and ran its first engine step
\* with none
C32_ForceWiped ==
  /\ op = "tick" /\ trace # <<>>
  /\ trace[1].qfrc # Zeros
  /\ Who(trace, "before") = <<>>
  /\ StepEvents[1].qfrc = Zeros

\* ------------------------------------------------------------------------
\* C33: the model/data pairs made by scene loads
\* ------------------------------------------------------------------------
MaxPairs == 3

\* The config prop changes: the mount effect's cleanup runs, then the effect
\* runs again with a flag of its own and starts a new load. A load of the
\* earlier run that is still in flight keeps running with its flag set.
ConfigChange ==
  /\ ~disposed
  /\ pairs.live + pairs.stale < MaxPairs
  /\ mjModelRef' = NULL
  /\ mjDataRef' = NULL
  /\ mountLoad' = "pending"
  /\ pairs' = [Deleted(pairs, IF mjModelRef = NULL THEN 0 ELSE 1) EXCEPT
                 !.stale = IF mountLoad = "pending" THEN @ + 1 ELSE @]
  /\ op' = "other" /\ trace' = <<>> /\ mon' = MonIdle
  /\ UNCHANGED <<mounted, status, apiLoad, disposed, siteIdRef, pausedRef, speedRef,
                 substepsRef, stepsToRunRef, onStepSet, onResetKind, ikEnabledRef,
                 ikCalculatingRef, ikTargetRef, gizmoAnimRef, dragRef,
                 beforeStepCallbacks, afterStepCallbacks, ikHook>>
  /\ UNCHANGED <<snapshot, captured, mjContact, contactEvents, stepLoop,
                 player, policy>>

\* The load of an earlier run of the mount effect resolves: its flag is set,
\* so its result is deleted and nothing is attached
StaleLoadResolve ==
  /\ pairs.stale > 0
  /\ pairs' = [Deleted(Created(pairs), 1) EXCEPT !.stale = @ - 1]
  /\ op' = "other" /\ trace' = <<>> /\ mon' = MonIdle
  /\ UNCHANGED <<mjModelRef, mjDataRef, mountLoad, mounted, status, apiLoad, disposed,
                 siteIdRef, pausedRef, speedRef,
                 substepsRef, stepsToRunRef, onStepSet, onResetKind, ikEnabledRef,
                 ikCalculatingRef, ikTargetRef, gizmoAnimRef, dragRef,
                 beforeStepCallbacks, afterStepCallbacks, ikHook>>
  /\ UNCHANGED <<snapshot, captured, mjContact, contactEvents, stepLoop,
                 player, policy>>

InitPairs == Init /\ onResetKind = "none" /\ onStepSet = FALSE

NextPairs ==
  \/ Tick
  \/ \E sid \in SiteIds : MountLoadResolve(1, sid)
  \/ ConfigChange
  \/ StaleLoadResolve
  \/ Dispose
  \/ LoadSceneStart
  \/ \E sid \in SiteIds : LoadSceneResolve(1, sid)
  \/ \E p \in BOOLEAN : setPaused(p)

SpecPairs == InitPairs /\ [][NextPairs]_vars

\* The pairs that are attached to the provider's refs
AttachedPairs == IF mjModelRef # NULL /\ mjDataRef # NULL THEN 1 ELSE 0

\* C33: every model/data pair made by a scene load is the attached pair or has
\* been deleted (so the pairs alive in the heap are exactly the attached
\* ones; a pair deleted twice would leave fewer alive than attached), and no
\* pair is attached once the provider is disposed.
C33_PairsAttachedOrDeleted ==
  /\ pairs.live = AttachedPairs
  /\ disposed => AttachedPairs = 0

\* A runtime load that was in flight over a config change has attached its
\* pair over the pair of the new mount load, which nothing can delete any more.
C33_OrphanPair ==
  /\ ~disposed /\ ~apiLoad /\ mountLoad = "done"
  /\ AttachedPairs = 1 /\ pairs.live = 2

\* A runtime load has attached its pair after the provider was disposed
C33_AttachedAfterDispose == disposed /\ AttachedPairs = 1 /\ pairs.live = 1

\* ------------------------------------------------------------------------
\* C34: the stored stepping configuration
\* ------------------------------------------------------------------------
\* The numbers a host passes to setSpeed, setTimestep and the speed, substeps
\* and timestep props: the code takes any number
ConfigInputs == {0, 1, 2}

\* api.setTimestep(dt); the timestep prop's effect makes the same assignment
\* when the prop changes, as the speed prop's effect does for setSpeed
setTimestepApi(dt) ==
  /\ ~disposed
  /\ mjModelRef' = IF mjModelRef = NULL THEN mjModelRef
                   ELSE [mjModelRef EXCEPT !.timestep = dt]
  /\ op' = "other" /\ trace' = <<>>
  /\ UNCHANGED <<mounted, mjDataRef, status, mountLoad, apiLoad, disposed,
                 siteIdRef, pausedRef, speedRef, substepsRef, stepsToRunRef, onStepSet,
                 onResetKind, ikEnabledRef, ikCalculatingRef, ikTargetRef,
                 gizmoAnimRef, dragRef, beforeStepCallbacks, afterStepCallbacks,
                 ikHook, mon>>
  /\ UNCHANGED <<snapshot, captured, mjContact, contactEvents, stepLoop,
                 pairs, player, policy>>

InitConfig == Init /\ onResetKind = "none" /\ onStepSet = FALSE

NextConfig ==
  \/ BeginStepLoop
  \/ StepLoopBatch
  \/ StepLoopSingle
  \/ EndStepLoop
  \/ stepLoop = NULL /\ \E ts \in Timesteps : MountLoadResolve(ts, 0)
  \/ stepLoop = NULL /\ \E x \in ConfigInputs : setSpeed(x)
  \/ stepLoop = NULL /\ \E n \in ConfigInputs : SubstepsProp(n)
  \/ stepLoop = NULL /\ \E dt \in ConfigInputs : setTimestepApi(dt)
  \/ stepLoop = NULL /\ \E n \in 1 .. MaxStepReq : step(n)

SpecConfig == InitConfig /\ [][NextConfig]_vars

\* C34: whatever the host calls or passes as props, the stored configuration
\* has a positive speed multiplier, at least one substep per frame and a
\* positive timestep.
C34_ConfigStaysValid ==
  /\ speedRef > 0
  /\ substepsRef >= 1
  /\ mjModelRef # NULL => mjModelRef.timestep > 0

\* The normal-mode loop has made a pass and the clock is where it started:
\* the timestep is zero or a pass makes no engine step, so the loop's
\* condition stays true.
C34_LoopSpins ==
  /\ stepLoop # NULL /\ stepLoop.mode = "normal" /\ stepLoop.odd
  /\ mjModelRef.timestep = 0 \/ substepsRef = 0
  /\ mjDataRef.time = stepLoop.startSimTime
  /\ mjDataRef.time - stepLoop.startSimTime < stepLoop.frameTime

\* ------------------------------------------------------------------------
\* C35, C38: useTrajectoryPlayer
\* ------------------------------------------------------------------------
MaxFrames == 3

PlayerUnchanged ==
  UNCHANGED <<mjModelRef, status, mountLoad, apiLoad, disposed, siteIdRef,
              speedRef, substepsRef, stepsToRunRef, onStepSet, onResetKind,
              ikEnabledRef, ikCalculatingRef, ikTargetRef, gizmoAnimRef, dragRef,
              afterStepCallbacks, ikHook, mon, snapshot, captured, mjContact,
              contactEvents, stepLoop, pairs, policy>>

\* Playback is under way: started and neither completed nor reset
InPlayback(pl) == pl.state \in {"playing", "paused"}

\* A component with useTrajectoryPlayer(trajectory, {mode, loop}) mounts;
\* before holds the paused flag as it was when the playback under way started
MountPlayer(mode, loop, len) ==
  /\ ~disposed
  /\ player = NULL
  /\ Len(beforeStepCallbacks) < MaxBefore
  /\ player' = [state |-> "idle", frame |-> 0, wasPaused |-> FALSE, mode |-> mode,
                loop |-> loop, len |-> len, before |-> FALSE]
  /\ beforeStepCallbacks' = SetAdd(beforeStepCallbacks, "player")
  /\ mounted' = [mounted EXCEPT !.before = Append(@, "player")]
  /\ op' = "other" /\ trace' = <<>>
  /\ UNCHANGED <<mjDataRef, pausedRef>>
  /\ PlayerUnchanged

play ==
  /\ player # NULL /\ player.len > 0
  /\ player' = [player EXCEPT
                  !.frame = IF player.state = "completed" THEN 0 ELSE @,
                  !.wasPaused = IF player.mode = "kinematic" THEN pausedRef ELSE @,
                  !.state = "playing",
                  !.before = IF InPlayback(player) THEN @ ELSE pausedRef]
  /\ pausedRef' = IF player.mode = "kinematic" THEN TRUE ELSE pausedRef
  /\ op' = "other" /\ trace' = <<>>
  /\ UNCHANGED <<mjDataRef, beforeStepCallbacks, mounted>>
  /\ PlayerUnchanged

pause ==
  /\ player # NULL /\ player.state = "playing"
  /\ player' = [player EXCEPT !.state = "paused"]
  /\ op' = "other" /\ trace' = <<>>
  /\ UNCHANGED <<mjDataRef, pausedRef, beforeStepCallbacks, mounted>>
  /\ PlayerUnchanged

\* The qpos of a trajectory frame written to the data, then mj_forward
ShowFrame(m, d, qpos) == mj_forward(m, [d EXCEPT !.qpos = qpos])

seek(frameIdx) ==
  /\ player # NULL /\ player.len > 0
  /\ LET frame == IF frameIdx < 0 THEN 0 ELSE Min(frameIdx, player.len - 1)
     IN /\ player' = [player EXCEPT !.frame = frame]
        /\ mjDataRef' = IF mjModelRef = NULL \/ mjDataRef = NULL
                           \/ getQpos(player.len, frame) = NULL
                        THEN mjDataRef
                        ELSE ShowFrame(mjModelRef, mjDataRef, getQpos(player.len, frame))
  /\ op' = "other" /\ trace' = <<>>
  /\ UNCHANGED <<pausedRef, beforeStepCallbacks, mounted>>
  /\ PlayerUnchanged

\* The player's reset()
playerReset ==
  /\ player # NULL
  /\ pausedRef' = IF player.mode = "kinematic" /\ player.state # "idle"
                  THEN player.wasPaused ELSE pausedRef
  /\ player' = [player EXCEPT !.frame = 0, !.state = "idle"]
  /\ op' = "other" /\ trace' = <<>>
  /\ UNCHANGED <<mjDataRef, beforeStepCallbacks, mounted>>
  /\ PlayerUnchanged

\* The player's frame callback (kinematic mode), in a frame that comes at
\* least frameInterval after the last one it showed
KinematicFrame ==
  /\ player # NULL /\ player.state = "playing" /\ player.mode = "kinematic"
  /\ player.len > 0
  /\ mjModelRef # NULL /\ mjDataRef # NULL
  /\ getQpos(player.len, player.frame) # NULL
  /\ mjDataRef' = ShowFrame(mjModelRef, mjDataRef, getQpos(player.len, player.frame))
  /\ \E r \in {AdvanceFrame(player, pausedRef)} :
       player' = r.player /\ pausedRef' = r.paused
  /\ op' = "other" /\ trace' = <<>>
  /\ UNCHANGED <<beforeStepCallbacks, mounted>>
  /\ PlayerUnchanged

\* A frame of the provider with the player's before-step callback registered
PlayerTick ==
  /\ ProviderFrame(LAMBDA h, d : h)
  /\ player' = IF trace' = <<>> THEN player
               ELSE SteppingPhases(mjModelRef, mjDataRef, ikTargetRef').player
  /\ UNCHANGED <<mjContact, contactEvents, stepLoop, pairs, policy>>

InitPlayer == Init /\ onResetKind = "none" /\ onStepSet = FALSE

\* The host leaves the scheduler's paused flag alone while a playback is under way
NextPlayer ==
  \/ PlayerTick
  \/ MountLoadResolve(1, 0)
  \/ \E mode \in {"kinematic", "physics"}, loop \in BOOLEAN, len \in 1 .. MaxFrames :
       MountPlayer(mode, loop, len)
  \/ play
  \/ pause
  \/ \E i \in -1 .. MaxFrames : seek(i)
  \/ playerReset
  \/ KinematicFrame
  \/ (IF player = NULL THEN TRUE ELSE ~InPlayback(player))
       /\ \E p \in BOOLEAN : setPaused(p)

SpecPlayer == InitPlayer /\ [][NextPlayer]_vars

\* C35: when a kinematic-mode playback ends, by completion or by reset(), the
\* scheduler's paused flag is what it was before that playback first started.
C35_PausedFlagHandedBack ==
  [][(player # NULL /\ player.mode = "kinematic" /\ InPlayback(player)
        /\ ~InPlayback(player'))
       => pausedRef' = player.before]_vars

\* A kinematic playback started on a running simulation has completed after a
\* pause() and a second play(), and the scheduler is left paused.
C35_LeftPaused ==
  /\ player # NULL /\ player.mode = "kinematic" /\ player.state = "completed"
  /\ ~player.before /\ player.wasPaused /\ pausedRef

\* C38: the player's frame index is an index of the trajectory, and its
\* progress, frame / (totalFrames - 1), lies within [0, 1].
C38_FrameInRange ==
  player # NULL =>
    /\ 0 <= player.frame /\ player.frame <= player.len - 1
    /\ player.len > 1 =>
         0 <= player.frame /\ player.frame <= 1 * (player.len - 1)

\* A kinematic playback without loop has completed: the frame index is
\* totalFrames, one past the last frame.
C38_PastTheEnd ==
  /\ player # NULL /\ player.state = "completed" /\ player.len > 1
  /\ player.frame = player.len

\* ------------------------------------------------------------------------
\* C36: usePolicy
\* ------------------------------------------------------------------------
PolicyUnchanged ==
  UNCHANGED <<mjModelRef, mjDataRef, status, mountLoad, apiLoad, disposed, siteIdRef,
              pausedRef, speedRef, substepsRef, stepsToRunRef, onStepSet, onResetKind,
              ikEnabledRef, ikCalculatingRef, ikTargetRef, gizmoAnimRef, dragRef,
              afterStepCallbacks, ikHook, mon, snapshot, captured, mjContact,
              contactEvents, stepLoop, pairs, player>>

\* A component with usePolicy(config) mounts. since is the simulated time the
\* stepping ticks have advanced since the policy last acted (or was mounted),
\* counted up to the interval; waited is its value when the callback last ran.
MountPolicy ==
  /\ ~disposed
  /\ policy = NULL
  /\ Len(beforeStepCallbacks) < MaxBefore
  /\ policy' = [isRunning |-> TRUE, lastActionTime |-> 0, since |-> 0, waited |-> 0]
  /\ beforeStepCallbacks' = SetAdd(beforeStepCallbacks, "policy")
  /\ mounted' = [mounted EXCEPT !.before = Append(@, "policy")]
  /\ op' = "other" /\ trace' = <<>>
  /\ PolicyUnchanged

\* The handle's start() and stop()
policyStart(on) ==
  /\ policy # NULL
  /\ policy' = [policy EXCEPT !.isRunning = on]
  /\ op' = "other" /\ trace' = <<>>
  /\ UNCHANGED <<beforeStepCallbacks, mounted>>
  /\ PolicyUnchanged

\* The policy's actions in the last tick
PolicyActions(tr) == SelectSeq(tr, LAMBDA e : e.kind \in {"onObservation", "onAction"})

\* A frame of the provider with the policy's before-step callback registered
PolicyTick ==
  /\ ProviderFrame(LAMBDA h, d : h)
  /\ policy' =
       IF trace' = <<>> \/ policy = NULL THEN policy
       ELSE LET after == SteppingPhases(mjModelRef, mjDataRef, ikTargetRef').policy
                advance == mjDataRef'.time - trace'[1].time
            IN [after EXCEPT
                  !.waited = policy.since,
                  !.since = Min(PolicyInterval,
                                IF PolicyActions(trace') # <<>> THEN advance
                                ELSE policy.since + advance)]
  /\ UNCHANGED <<mjContact, contactEvents, stepLoop, pairs, player>>

InitPolicy == Init /\ onResetKind = "none" /\ onStepSet = FALSE

NextPolicy ==
  \/ PolicyTick
  \/ MountLoadResolve(1, 0)
  \/ MountPolicy
  \/ \E on \in BOOLEAN : policyStart(on)
  \/ reset
  \/ \E x \in Speeds : setSpeed(x)

SpecPolicy == InitPolicy /\ [][NextPolicy]_vars

\* A stepping tick has run with the policy mounted and running
PolicyTickDone ==
  op = "tick" /\ trace # <<>> /\ policy # NULL /\ policy.isRunning

\* C36: in a stepping tick that comes when the ticks since the policy's last
\* action have advanced the simulated time by 1/frequency or more, the policy
\* acts; it acts at most once per tick, onObservation then onAction; and this
\* holds after reset() has moved the time backwards as well.
C36_PolicyActsEachInterval ==
  PolicyTickDone =>
    /\ policy.waited >= PolicyInterval => PolicyActions(trace) # <<>>
    /\ PolicyActions(trace) # <<>> =>
         /\ Len(PolicyActions(trace)) = 2
         /\ PolicyActions(trace)[1].kind = "onObservation"
         /\ PolicyActions(trace)[2].kind = "onAction"

\* After a reset() the clock is behind the time of the last action: the ticks
\* have advanced the time by a whole interval since then and the policy stays
\* silent.
C36_SilentAfterReset ==
  /\ PolicyTickDone
  /\ policy.waited >= PolicyInterval /\ PolicyActions(trace) = <<>>
  /\ trace[1].time < policy.lastActionTime

\* ------------------------------------------------------------------------
\* C37: the built-in IK has the last word on the arm's controls
\* ------------------------------------------------------------------------
\* The solution the provider's solver returns for the data of trace entry e
ProviderSolution(e) ==
  LET d == [mjDataRef EXCEPT !.qpos = e.qpos, !.ctrl = e.ctrl]
      currentQ == [i \in 0 .. (NumArmJoints - 1) |-> e.qpos[i]]
  IN ikSolveFn(mjModelRef, d, siteIdRef, ikTargetRef, currentQ).result

\* C37: in a stepping tick with the built-in IK enabled and a solution
\* returned, every engine step of the tick runs with ctrl[0..numArmJoints)
\* equal to that solution, whatever the before-step callbacks wrote.
C37_IkSolutionReachesEngine ==
  (SteppingTick /\ ikEnabledRef) =>
    \A k \in Kinds(trace, "ik") :
      \A sol \in {ProviderSolution(trace[k])} :
        sol # NULL =>
          \A j \in Kinds(trace, "mj_step") :
            \A i \in 0 .. (NumArmJoints - 1) : trace[j].ctrl[i] = sol.q[i]

\* A mounted useIkController wrote its own solution to ctrl[0] in its
\* before-step callback; the built-in IK then replaced it with a different
\* one, which is what the engine step ran with.
C37_Witness ==
  /\ SteppingTick /\ ikEnabledRef
  /\ \E b \in Kinds(trace, "before"), k \in Kinds(trace, "ik"),
        j \in Kinds(trace, "mj_step") :
       /\ trace[b].who = "ik" /\ b < k /\ k < j
       /\ trace[b + 1].ctrl[0] # trace[b].ctrl[0]
       /\ trace[k].ctrl[0] = trace[b + 1].ctrl[0]
       /\ trace[j].ctrl[0] # trace[k].ctrl[0]
       /\ ProviderSolution(trace[k]) # NULL
       /\ trace[j].ctrl[0] = ProviderSolution(trace[k]).q[0]

\* ------------------------------------------------------------------------
\* C39: lookup of sites and actuators by name
\* ------------------------------------------------------------------------
MaxNames == 2
NameSafety == 100

\* Object names as sequences of character codes ('a' = 97, 'b' = 98)
Names == {<<97>>, <<98>>, <<97, 98>>, <<98, 97>>, <<97, 97>>}

\* The names of the objects of one type: MuJoCo keeps them distinct
NameLists ==
  {l \in UNION {[1 .. n -> Names] : n \in 0 .. MaxNames} :
     \A i, j \in DOMAIN l : l[i] = l[j] => i = j}

\* The names of the other type, which come first or last in the buffer
OtherLists == {<<>>, <<<<98, 97>>>>}

\* mjModel.names: the names one after the other, each ended by a 0
RECURSIVE Pack(_, _)
Pack(all, i) == IF i > Len(all) THEN <<>> ELSE all[i] \o <<0>> \o Pack(all, i + 1)

\* The address in the buffer of the k-th name (counted from 0)
RECURSIVE Adr(_, _)
Adr(all, k) == IF k = 0 THEN 0 ELSE Adr(all, k - 1) + Len(all[k]) + 1

\* The compiled model of a scene with these site and actuator names
ModelOf(sites, acts) ==
  [names |-> Pack(sites \o acts, 1),
   nsite |-> Len(sites),
   name_siteadr |-> [i \in 0 .. (Len(sites) - 1) |-> Adr(sites \o acts, i)],
   nu |-> Len(acts),
   name_actuatoradr |-> [i \in 0 .. (Len(acts) - 1) |->
                           Adr(sites \o acts, Len(sites) + i)]]

\* while (mjModel.names[idx] !== 0 && safety < 100) name += ...
RECURSIVE ReadName(_, _, _, _)
ReadName(names, idx, safety, name) ==
  IF names[idx + 1] # 0 /\ safety < NameSafety
  THEN ReadName(names, idx + 1, safety + 1, Append(name, names[idx + 1]))
  ELSE name

getName(mjModel, address) == ReadName(mjModel.names, address, 0, <<>>)

\* String.prototype.includes
Includes(str, sub) ==
  \E o \in 0 .. (Len(str) - Len(sub)) : SubSeq(str, o + 1, o + Len(sub)) = sub

\* for (i < n) if (getName(mjModel, adr[i]).includes(name)) return i; return -1
RECURSIVE FindFrom(_, _, _, _, _)
FindFrom(mjModel, n, adr, name, i) ==
  IF i >= n THEN -1
  ELSE IF Includes(getName(mjModel, adr[i]), name) THEN i
       ELSE FindFrom(mjModel, n, adr, name, i + 1)

findSiteByName(mjModel, name) ==
  FindFrom(mjModel, mjModel.nsite, mjModel.name_siteadr, name, 0)

findActuatorByName(mjModel, name) ==
  FindFrom(mjModel, mjModel.nu, mjModel.name_actuatoradr, name, 0)

\* A lookup: which table, its names, the name asked for and the index returned
FindEv(who, table, name, result) ==
  [kind |-> "find", who |-> who, table |-> table, name |-> name, result |-> result]

FindSite(sites, acts, name) ==
  /\ op' = "find"
  /\ trace' = <<FindEv("site", sites, name, findSiteByName(ModelOf(sites, acts), name))>>
  /\ UNCHANGED mjDataRef
  /\ SolverUnchanged

FindActuator(sites, acts, name) ==
  /\ op' = "find"
  /\ trace' = <<FindEv("actuator", acts, name,
                       findActuatorByName(ModelOf(sites, acts), name))>>
  /\ UNCHANGED mjDataRef
  /\ SolverUnchanged

InitNames == Init /\ onResetKind = "none" /\ onStepSet = FALSE

NextNames ==
  \/ \E sites \in NameLists, acts \in OtherLists, name \in Names :
       FindSite(sites, acts, name)
  \/ \E sites \in OtherLists, acts \in NameLists, name \in Names :
       FindActuator(sites, acts, name)

SpecNames == InitNames /\ [][NextNames]_vars

\* C39: a lookup returns the index of the object whose name equals the name
\* asked for, and -1 when no object of the table has exactly that name.
C39_ExactNameLookup ==
  op = "find" =>
    LET e == trace[1]
    IN IF \E i \in DOMAIN e.table : e.table[i] = e.name
       THEN e.result \in 0 .. (Len(e.table) - 1) /\ e.table[e.result + 1] = e.name
       ELSE e.result = -1

\* The lookup of "b" among the actuators "ab", "b" returned 0, the index of "ab"
C39_SubstringMatch ==
  /\ op = "find" /\ trace[1].who = "actuator"
  /\ trace[1].table = <<<<97, 98>>, <<98>>>> /\ trace[1].name = <<98>>
  /\ trace[1].result = 0

\* The lookup of a name that no site has returned an index
C39_FoundWithoutName ==
  /\ op = "find" /\ trace[1].who = "site" /\ trace[1].result >= 0
  /\ \A i \in DOMAIN trace[1].table : trace[1].table[i] # trace[1].name

====
